---- MODULE Spec2Model ----
(***************************************************************************)
(* Deployment inclusion reconciliation of the Fabric train tracker:        *)
(* ADOService.getPLGDeployments (client/src/services/adoService.ts) as a   *)
(* state machine whose steps are the continuations of its awaits, with the *)
(* Azure DevOps REST responses as nondeterministic inputs.                 *)
(***************************************************************************)
EXTENDS Integers, Sequences, FiniteSets, TLC

\* ------------------------------------------------------------------ bounds
\* Number of tracked environments of a run (a prefix of the configured table).
NumEnvs == 2
\* Longest deployment history given to the grouper alone.
MaxRecords == 3
\* Longest deployment history of a run over one environment.
MaxScanRecords == 2
\* Longest deployment history of a run over all environments.
MaxLoopRecords == 1
\* Longest deployment history with one record per owner (deep scans).
MaxHistory == 11
\* Largest owner id of the drawn histories (deep scans use 1..MaxHistory).
MaxOwner == 2
\* Most entries of a merge-bases response.
MaxBases == 2
\* Latest instant of the time comparisons made alone.
MaxTime == 2
\* Most records of a history of the train-window fallback.
MaxWindowRecords == 2
\* Most owners, one record each, of the upstream state two calls are made
\* against.
MaxUpstreamOwners == 2
\* Longest text typed into a field of the form.
MaxText == 2
\* Most records of a history of the build-based tracking.
MaxTrackedRecords == 2

\* ------------------------------------------------------- program constants
\* const maxChecks = 10 (adoService.ts:487)
maxChecks == 10
\* getEnvironmentDeploymentRecords(env.adoEnvId, 30) (adoService.ts:457)
TopRecords == 30

\* ------------------------------------------------------------ environments
\* One environment of each product group of ALL_TRACKED_ENVIRONMENTS, in the
\* order of the table (FE, BE, VIZ, RDL). No tracked environment carries the
\* product tag 'PLG'.
ALL_TRACKED_ENVIRONMENTS ==
  << [id |-> "fe-edog",   adoEnvId |-> 172, adoEnvName |-> "PLG-EDOG",
      deploymentType |-> "continuous",  product |-> "FE"],
     [id |-> "be-daily",  adoEnvId |-> 183, adoEnvName |-> "FMv2-DAILY",
      deploymentType |-> "train-based", product |-> "BE"],
     [id |-> "viz-edog",  adoEnvId |-> 173, adoEnvName |-> "VIZ-EDOG",
      deploymentType |-> "continuous",  product |-> "VIZ"],
     [id |-> "rdl-daily", adoEnvId |-> 193, adoEnvName |-> "RDL-Daily",
      deploymentType |-> "train-based", product |-> "RDL"] >>

\* ------------------------------------------------------------------ values
NoResult == "none"
NoCommit == "none"
NoVersion == "none"
\* Times on a small scale around the merge instant (closedDate).
NoDate == -2
InvalidDate == -1
BeforeMerge == 0
MergeTime == 1
AfterMerge == 2
Times == {BeforeMerge, MergeTime, AfterMerge}

\* The tracked merge commit and the revisions a build can be built from:
\* the merge commit is an ancestor of the revisions of Descendants only.
MergeCommit == "c0"
Revisions == {"r_with", "r_without"}
Descendants == {"r_with"}

\* String.prototype.toLowerCase on the result strings of the records.
ToLower(s) == IF s = "Succeeded" THEN "succeeded" ELSE s

\* ----------------------------------------------------------------- records
\* An ADOEnvironmentDeploymentRecord: id is its position in the history
\* response (it stands for the record's own queue/start/finish instants),
\* owner 0 is a record without owner id.
NullRecord == [id |-> 0, owner |-> 0, result |-> NoResult,
               startTime |-> FALSE, finishTime |-> FALSE]

\* The record shapes: succeeded (either spelling), failed, running
\* (no result, started, unfinished), queued (no result, not started).
Shapes ==
  { [result |-> "succeeded", startTime |-> TRUE,  finishTime |-> TRUE],
    [result |-> "Succeeded", startTime |-> TRUE,  finishTime |-> TRUE],
    [result |-> "failed",    startTime |-> TRUE,  finishTime |-> TRUE],
    [result |-> NoResult,    startTime |-> TRUE,  finishTime |-> FALSE],
    [result |-> NoResult,    startTime |-> FALSE, finishTime |-> FALSE] }

\* The record shapes of a history: succeeded, failed, running, queued.
CheckedShapes == { sh \in Shapes : sh.result # "succeeded" }

MkRecord(i, o, s) == [id |-> i, owner |-> o, result |-> s.result,
                      startTime |-> s.startTime, finishTime |-> s.finishTime]

\* All histories of exactly n records over the given owners and shapes.
HistoriesOfLen(n, owners, shapes) ==
  { [i \in 1..n |-> MkRecord(i, f[i][1], f[i][2])] :
      f \in [1..n -> owners \X shapes] }

HistoriesUpTo(n, owners, shapes) ==
  UNION { HistoriesOfLen(k, owners, shapes) : k \in 0..n }

\* ----------------------------------------------------------------- grouper
IsSucceeded(r) == ToLower(r.result) = "succeeded"
IsInProgress(r) == r.result = NoResult /\ r.startTime /\ ~r.finishTime

\* Array.prototype.find with each of the two tests: the first element that
\* satisfies the test, null when there is none.
FindSucceeded(group) ==
  LET hits == SelectSeq(group, IsSucceeded) IN
  IF hits = <<>> THEN NullRecord ELSE Head(hits)

FindInProgress(group) ==
  LET hits == SelectSeq(group, IsInProgress) IN
  IF hits = <<>> THEN NullRecord ELSE Head(hits)

\* Keys of the buildGroups Map in insertion order: the owner ids in the order
\* of their first record; records without owner id are left out.
RECURSIVE GroupKeys(_)
GroupKeys(recs) ==
  IF recs = <<>> THEN <<>>
  ELSE LET front == SubSeq(recs, 1, Len(recs) - 1)
           last == recs[Len(recs)]
           keys == GroupKeys(front)
       IN IF last.owner = 0 \/ \E i \in 1..Len(keys) : keys[i] = last.owner
          THEN keys
          ELSE Append(keys, last.owner)

GroupOf(recs, bid) == SelectSeq(recs, LAMBDA r : r.owner = bid)

\* A faulty variant: a group without a succeeded or running part is
\* represented by its first record.
BestRecord_OrFirst(group) ==
  LET successRecord == FindSucceeded(group)
      progressRecord == FindInProgress(group)
  IN IF successRecord # NullRecord THEN successRecord
     ELSE IF progressRecord # NullRecord THEN progressRecord
     ELSE Head(group)

\* A faulty variant: an in-progress part is preferred to a succeeded one.
BestRecord_ProgressFirst(group) ==
  LET progressRecord == FindInProgress(group)
      successRecord == FindSucceeded(group)
  IN IF progressRecord # NullRecord THEN progressRecord ELSE successRecord

\* The "best" record of one build's group.
BestRecord(group) ==
  LET successRecord == FindSucceeded(group)
      progressRecord == FindInProgress(group)
  IN IF successRecord # NullRecord THEN successRecord ELSE progressRecord

\* The records of s in the order of the history response.
RECURSIVE SortById(_)
SortById(s) ==
  IF s = <<>> THEN <<>>
  ELSE LET m == CHOOSE i \in 1..Len(s) : \A j \in 1..Len(s) : s[i].id <= s[j].id
       IN <<s[m]>> \o SortById(SubSeq(s, 1, m - 1) \o SubSeq(s, m + 1, Len(s)))

\* A faulty variant: the representatives are put in the order of their own
\* records.
ValidDeployments_ByRecord(recs) ==
  LET keys == GroupKeys(recs)
      best == [i \in 1..Len(keys) |-> BestRecord(GroupOf(recs, keys[i]))]
  IN SortById(SelectSeq(best, LAMBDA r : r # NullRecord))

\* validDeployments: the best record of each group, nulls removed.
ValidDeployments(recs) ==
  LET keys == GroupKeys(recs)
      best == [i \in 1..Len(keys) |-> BestRecord(GroupOf(recs, keys[i]))]
  IN SelectSeq(best, LAMBDA r : r # NullRecord)

\* ------------------------------------------------------------ repositories
Lower(name) ==
  LET
      \* Repository names are sequences of characters, so that toLowerCase and
      \* String.prototype.includes are computed.
      LowerChar(c) ==
        IF c = "P" THEN "p" ELSE IF c = "B" THEN "b" ELSE IF c = "A" THEN "a" ELSE c
  IN
  [i \in 1..Len(name) |-> LowerChar(name[i])]
Includes(a, b) ==
  \E i \in 0..(Len(a) - Len(b)) : SubSeq(a, i + 1, i + Len(b)) = b

\* this.parsedUrl.repository of the tracked pull request.
PrRepo == <<"P", "b">>
\* build.repository absent.
NoRepo == <<"undefined">>

\* A faulty variant: the names are compared as they are written.
IsSameRepo_CaseSensitive(buildRepoName, prRepoName) ==
  LET buildRepo == IF buildRepoName = NoRepo THEN <<>> ELSE buildRepoName
  IN /\ buildRepo # <<>>
     /\ \/ buildRepo = prRepoName
        \/ Includes(buildRepo, prRepoName)
        \/ Includes(prRepoName, buildRepo)

\* isSameRepo (adoService.ts:557-561).
IsSameRepo(buildRepoName, prRepoName) ==
  LET prRepo == Lower(prRepoName)
      buildRepo == IF buildRepoName = NoRepo THEN <<>> ELSE Lower(buildRepoName)
  IN /\ buildRepo # <<>>
     /\ \/ buildRepo = prRepo
        \/ Includes(buildRepo, prRepo)
        \/ Includes(prRepo, buildRepo)

\* ------------------------------------------------------ upstream responses
\* getBuildById: null when the request fails, else the Build object.
NullBuild == [found |-> FALSE, sourceVersion |-> NoVersion, startTime |-> NoDate,
              links |-> FALSE, repository |-> NoRepo]
BuildResponses ==
  LET
      RepoNames == { <<"P", "b">>, <<"p", "B">>, <<"p">>, <<"x", "p", "b">>,
                     <<"x">>, <<>> }
  IN
  {NullBuild} \cup
  { b \in [found : {TRUE}, sourceVersion : Revisions \cup {NoVersion},
           startTime : Times \cup {NoDate}, links : BOOLEAN,
           repository : RepoNames \cup {NoRepo}] :
      \* the fields no statement reads are drawn once
      /\ b.sourceVersion = NoVersion =>
           b.startTime = NoDate /\ b.links /\ b.repository = NoRepo
      /\ ~b.links => b.startTime = NoDate /\ b.repository = NoRepo }

\* A faulty variant: no version id is taken for a build id.
ParseIntIsNumber_Never(kind) == FALSE

\* !isNaN(parseInt(versionId)): parseInt reads the leading digits, so digits
\* followed by other characters ("mixed") give a number too.
ParseIntIsNumber(kind) == kind \in {"digits", "mixed"}
NullRelease == [found |-> FALSE, links |-> FALSE, createdOn |-> NoDate,
                artifact |-> "undefined", rev |-> NoVersion]

\* ---------------------------------------------------------------- verdicts

\* finishTime || startTime || queueTime of the matched record.
TimestampOf(dep) ==
  IF dep.finishTime THEN [rec |-> dep.id, field |-> "finishTime"]
  ELSE IF dep.startTime THEN [rec |-> dep.id, field |-> "startTime"]
  ELSE [rec |-> dep.id, field |-> "queueTime"]

PlainVerdict(env, status) ==
  LET
      NoTimestamp == [rec |-> 0, field |-> "none"]
  IN
  [environment |-> env.adoEnvName, environmentId |-> env.adoEnvId,
   status |-> status, deploymentType |-> env.deploymentType,
   timestamp |-> NoTimestamp, buildId |-> 0, url |-> "none"]

\* A faulty variant: without a match only the train-based environments wait
\* for the train, the continuous ones are not deployed.
ScanVerdict_ByType(env, confirmed, status, url) ==
  IF confirmed # NullRecord
  THEN [environment |-> env.adoEnvName, environmentId |-> env.adoEnvId,
        status |-> status, deploymentType |-> env.deploymentType,
        timestamp |-> TimestampOf(confirmed), buildId |-> confirmed.owner,
        url |-> url]
  ELSE PlainVerdict(env, IF env.deploymentType = "train-based"
                         THEN "waitingForTrain" ELSE "notDeployed")

\* The entry pushed after the scan of one environment (adoService.ts:603-622).
ScanVerdict(env, confirmed, status, url) ==
  IF confirmed # NullRecord
  THEN [environment |-> env.adoEnvName, environmentId |-> env.adoEnvId,
        status |-> status, deploymentType |-> env.deploymentType,
        timestamp |-> TimestampOf(confirmed), buildId |-> confirmed.owner,
        url |-> url]
  ELSE PlainVerdict(env, "waitingForTrain")

\* Status of a matched deployment (adoService.ts:588-594).
MatchStatus(dep) ==
  IF dep.result = NoResult /\ dep.startTime /\ ~dep.finishTime THEN "inProgress"
  ELSE IF ToLower(dep.result) = "succeeded" THEN "deployed"
  ELSE "unknown"

\* A faulty variant: the catch block logs the failure and pushes nothing.
CatchPush_Nothing(env) == <<>>

\* What the per-environment catch block pushes (adoService.ts:623-631).
CatchPush(env) == <<PlainVerdict(env, "unknown")>>

\* A faulty variant: the environments of an unmerged change wait for the
\* train.
UnmergedResult_Waiting(environments) ==
  [i \in 1..Len(environments) |-> PlainVerdict(environments[i], "waitingForTrain")]

\* The early return for a change that is not merged (adoService.ts:436-444).
UnmergedResult(environments) ==
  [i \in 1..Len(environments) |-> PlainVerdict(environments[i], "notDeployed")]

\* A faulty variant: an equal instant counts as later.
IsMatchByTime_OrEqual(startTime, mergeTime) ==
  /\ startTime # NoDate
  /\ startTime # InvalidDate
  /\ mergeTime # InvalidDate
  /\ startTime >= mergeTime

\* buildStartTime > prMergeTime on Date objects: an absent Date is skipped by
\* the if, an Invalid Date compares false.
IsMatchByTime(startTime, mergeTime) ==
  /\ startTime # NoDate
  /\ startTime # InvalidDate
  /\ mergeTime # InvalidDate
  /\ startTime > mergeTime

\* env.product === 'PLG' && isSameRepo (adoService.ts:564).
UseAncestry(env, isSameRepo) == env.product = "PLG" /\ isSameRepo

\* ------------------------------------------------------------------- state
VARIABLES
  mergeCommitId,        \* argument: the merge commit of the change, or NoCommit
  closedDate,           \* argument: the merge instant, or NoDate
  envs,                 \* the tracked environments of the run
  mode,                 \* the family the histories of the run are drawn from
  pc,                   \* the await the call is suspended at
  hung,                 \* the pending request never completes
  envIdx,               \* position of the for loop over the environments
  records,              \* the history the grouper is applied to
  validDeployments,     \* the representatives of the current environment
  candIdx,              \* position of the candidate scan
  successfulChecks,     \* the scan counter (declared, compared, never changed)
  confirmedDeployment,  \* the matched representative, or NullRecord
  deploymentStatus,     \* the status derived from the matched representative
  confirmedUrl,         \* the link written back into the matched record
  sourceVersion,        \* resolved revision of the current candidate
  buildStartTime,       \* observed instant of the current candidate
  webUrl,               \* link of the current candidate
  deployments,          \* the result list
  oracle,               \* prophecy: the candidates that end in a positive verdict
  fetchFailed,          \* history: the history request of this environment failed
  examined,             \* history: candidates whose resolution was started
  checked,              \* history: candidates that reached the inclusion check
  positives,            \* history: candidates whose inclusion check was positive
  trueAnc,              \* history: first checked same-repository descendant
  lastCheck,            \* history: the inclusion check made by the last step
  thrown,               \* history: the environments whose iteration threw
  done,                 \* history: the scan behind the verdict pushed last
  trail,                \* history: the lookups answered for the current candidate
  lastResolve,          \* history: the resolution ended by the last step
  requested,            \* history: the lookups issued so far in the run
  arg,                  \* the arguments of a function applied on its own
  ret,                  \* its result
  app,                  \* the state of the App component
  localStorage          \* the browser's persistent storage of the page

vars == << mergeCommitId, closedDate, envs, mode, pc, hung, envIdx, records,
           validDeployments, candIdx, successfulChecks, confirmedDeployment,
           deploymentStatus, confirmedUrl, sourceVersion, buildStartTime,
           webUrl, deployments, oracle, fetchFailed, examined, checked,
           positives, trueAnc, lastCheck, thrown, done, trail, lastResolve,
           requested, arg, ret, app, localStorage >>

NoCheck == [made |-> FALSE, sameRepo |-> FALSE, method |-> "none",
            result |-> FALSE]
NoDone == [env |-> 0, threw |-> FALSE, fetchFailed |-> FALSE, examined |-> 0,
           checked |-> 0, positives |-> {}, trueAnc |-> 0, candidates |-> <<>>,
           oracle |-> <<>>]
NoResolve == [made |-> FALSE, cand |-> 0, trail |-> <<>>, origin |-> NoRepo,
              revision |-> NoVersion, threw |-> FALSE]
NoCall == [fn |-> "none"]

\* The page: the component state and the storage it reads and writes.
Page == << app, localStorage >>
NullItem == <<"null">>
NoPage ==
  LET
      NoApp == [mounted |-> FALSE]
  IN
  /\ app = NoApp
  /\ localStorage = [ado_pat |-> NullItem]

\* The part of the state a step of the call rewrites, as one record.
Cur ==
  [pc |-> pc, envIdx |-> envIdx, validDeployments |-> validDeployments,
   candIdx |-> candIdx, successfulChecks |-> successfulChecks,
   confirmedDeployment |-> confirmedDeployment,
   deploymentStatus |-> deploymentStatus, confirmedUrl |-> confirmedUrl,
   sourceVersion |-> sourceVersion, buildStartTime |-> buildStartTime,
   webUrl |-> webUrl, deployments |-> deployments, oracle |-> oracle,
   fetchFailed |-> fetchFailed, examined |-> examined, checked |-> checked,
   positives |-> positives, trueAnc |-> trueAnc, lastCheck |-> NoCheck,
   thrown |-> thrown, done |-> NoDone, trail |-> trail,
   lastResolve |-> NoResolve, requested |-> requested]

Apply(n) ==
  /\ pc' = n.pc
  /\ envIdx' = n.envIdx
  /\ validDeployments' = n.validDeployments
  /\ candIdx' = n.candIdx
  /\ successfulChecks' = n.successfulChecks
  /\ confirmedDeployment' = n.confirmedDeployment
  /\ deploymentStatus' = n.deploymentStatus
  /\ confirmedUrl' = n.confirmedUrl
  /\ sourceVersion' = n.sourceVersion
  /\ buildStartTime' = n.buildStartTime
  /\ webUrl' = n.webUrl
  /\ deployments' = n.deployments
  /\ oracle' = n.oracle
  /\ fetchFailed' = n.fetchFailed
  /\ examined' = n.examined
  /\ checked' = n.checked
  /\ positives' = n.positives
  /\ trueAnc' = n.trueAnc
  /\ lastCheck' = n.lastCheck
  /\ thrown' = n.thrown
  /\ done' = n.done
  /\ trail' = n.trail
  /\ lastResolve' = n.lastResolve
  /\ requested' = n.requested

\* The lookups are traced in the runs of the family "trace".
Tracing == mode = "trace"

\* History: a lookup is issued, for an environment or for the owner of one
\* of its candidates.
Requested(s, kind, owner) ==
  IF Tracing
  THEN [s EXCEPT !.requested = Append(s.requested, [kind |-> kind,
                                                    env |-> s.envIdx,
                                                    owner |-> owner])]
  ELSE s

\* ------------------------------------------------- the loop over environments
\* The locals of one iteration of the for loop, as declared at its top
\* (adoService.ts:487-490 and 500-502).
FreshLocals(s) ==
  [s EXCEPT !.validDeployments = <<>>, !.candIdx = 0, !.successfulChecks = 0,
            !.confirmedDeployment = NullRecord, !.deploymentStatus = "deployed",
            !.confirmedUrl = "none", !.sourceVersion = NoVersion,
            !.buildStartTime = NoDate, !.webUrl = "none", !.oracle = <<>>,
            !.fetchFailed = FALSE, !.examined = 0, !.checked = 0,
            !.positives = {}, !.trueAnc = 0, !.trail = <<>>]

\* A faulty variant: after the last environment the call awaits a promise
\* that nothing settles instead of returning.
NextEnv_NeverReturns(s) ==
  IF s.envIdx < Len(envs)
  THEN Requested([FreshLocals(s) EXCEPT !.envIdx = s.envIdx + 1,
                                        !.pc = "awaitRecords"], "records", 0)
  ELSE [FreshLocals(s) EXCEPT !.pc = "awaitNothing"]

\* for (const env of ALL_TRACKED_ENVIRONMENTS): the next iteration requests
\* the history of the next environment; after the last one the list is
\* returned (adoService.ts:453-457 and 634-635).
NextEnv(s) ==
  IF s.envIdx < Len(envs)
  THEN Requested([FreshLocals(s) EXCEPT !.envIdx = s.envIdx + 1,
                                        !.pc = "awaitRecords"], "records", 0)
  ELSE [FreshLocals(s) EXCEPT !.pc = "done"]

\* One environment is finished: its entries are pushed and the loop goes on.
EndOfEnv(s, pushed, threw) ==
  NextEnv([s EXCEPT
    !.deployments = s.deployments \o pushed,
    !.thrown = IF threw THEN s.thrown \cup {s.envIdx} ELSE s.thrown,
    !.done = [env |-> s.envIdx, threw |-> threw, fetchFailed |-> s.fetchFailed,
              examined |-> s.examined, checked |-> s.checked,
              positives |-> s.positives, trueAnc |-> s.trueAnc,
              candidates |-> s.validDeployments, oracle |-> s.oracle]])

\* The statements after the candidate loop (adoService.ts:603-622).
AfterScan(s) ==
  EndOfEnv(s, << ScanVerdict(envs[s.envIdx], s.confirmedDeployment,
                             s.deploymentStatus, s.confirmedUrl) >>, FALSE)

\* A faulty variant: the catch block surrounds the whole loop, so a throw
\* pushes the unknown entry and ends the run.
Throw_EndsLoop(s) ==
  [EndOfEnv(s, CatchPush(envs[s.envIdx]), TRUE) EXCEPT !.pc = "done"]

\* An exception inside the try block (adoService.ts:623-631).
Throw(s) == EndOfEnv(s, CatchPush(envs[s.envIdx]), TRUE)

\* --------------------------------------------------------- the candidate scan
\* A faulty variant: the loop has no break after a match.
BreakOnMatch_Never == FALSE

\* break after a match (adoService.ts:599).
BreakOnMatch == TRUE

\* for (const deployment of validDeployments) from position k on: the cap
\* test, the owner test, then the request of the owner's build
\* (adoService.ts:494-505).
RECURSIVE ScanFrom(_, _)
ScanFrom(s, k) ==
  IF k > Len(s.validDeployments) THEN AfterScan(s)
  ELSE IF s.successfulChecks >= maxChecks THEN AfterScan(s)
  ELSE IF s.validDeployments[k].owner = 0 THEN ScanFrom(s, k + 1)
  ELSE Requested([s EXCEPT !.pc = "awaitBuild", !.candIdx = k,
                           !.sourceVersion = NoVersion,
                           !.buildStartTime = NoDate, !.webUrl = "record",
                           !.examined = s.examined + 1, !.trail = <<>>],
                 "build", s.validDeployments[k].owner)

\* if (isMatch) { ... break } (adoService.ts:583-600).
AfterCheck(s, isMatch) ==
  IF isMatch
  THEN LET dep == s.validDeployments[s.candIdx]
           m == [s EXCEPT !.confirmedDeployment = dep,
                          !.deploymentStatus = MatchStatus(dep),
                          !.confirmedUrl = s.webUrl,
                          !.positives = s.positives \cup {s.candIdx}]
       IN IF BreakOnMatch THEN AfterScan(m) ELSE ScanFrom(m, s.candIdx + 1)
  ELSE ScanFrom(s, s.candIdx + 1)

\* History: a lookup of the current candidate was answered.
Answered(s, kind, outcome, rev) ==
  IF Tracing
  THEN [s EXCEPT !.trail = Append(s.trail, [kind |-> kind, outcome |-> outcome,
                                            rev |-> rev])]
  ELSE s

\* History: the resolution of the current candidate has ended.
Ended(s, buildRepoName, threw) ==
  IF Tracing
  THEN [s EXCEPT !.lastResolve = [made |-> TRUE, cand |-> s.candIdx,
                                  trail |-> s.trail, origin |-> buildRepoName,
                                  revision |-> s.sourceVersion, threw |-> threw]]
  ELSE s

\* From the resolved source version to the inclusion check
\* (adoService.ts:553-581).
OnResolved(s0, buildRepoName) ==
  LET s == Ended(s0, buildRepoName, FALSE) IN
  IF s.sourceVersion = NoVersion THEN ScanFrom(s, s.candIdx + 1)
  ELSE
    LET isSameRepo == IsSameRepo(buildRepoName, PrRepo)
        dep == s.validDeployments[s.candIdx]
        c == [s EXCEPT
               !.checked = s.checked + 1,
               !.trueAnc = IF /\ s.trueAnc = 0
                              /\ isSameRepo
                              /\ s.sourceVersion \in Descendants
                              /\ IsSucceeded(dep)
                           THEN s.candIdx ELSE s.trueAnc]
    IN IF UseAncestry(envs[s.envIdx], isSameRepo)
       THEN Requested([c EXCEPT !.pc = "awaitMergeBase",
                                !.lastCheck = [made |-> TRUE,
                                               sameRepo |-> isSameRepo,
                                               method |-> "ancestry",
                                               result |-> FALSE]],
                      "mergeBase", dep.owner)
       ELSE LET isMatch == IsMatchByTime(s.buildStartTime, closedDate)
            IN AfterCheck([c EXCEPT !.lastCheck =
                             [made |-> TRUE, sameRepo |-> isSameRepo,
                              method |-> "time", result |-> isMatch]],
                          isMatch)

\* ------------------------------------------------------------------ oracle
\* oracle[k] foretells how the resolution and check of candidate k end:
\* "match" (a positive inclusion verdict), "other" (a negative verdict, a skip
\* or an exception) or "free" (not foretold). The responses are drawn so that
\* they agree with it; every upstream agrees with one oracle.
Oracles(candidates) ==
  IF mode = "scan" THEN [1..Len(candidates) -> {"match", "other"}]
  ELSE { [k \in 1..Len(candidates) |-> "free"] }

StepOutcome(s, n) ==
  IF \/ s.candIdx \in n.positives
     \/ n.done.env = s.envIdx /\ s.candIdx \in n.done.positives
  THEN "match"
  ELSE IF /\ n.pc \in {"awaitRelease", "awaitArtifactBuild", "awaitMergeBase"}
          /\ n.done.env = 0
  THEN "open"
  ELSE "other"

CanStillMatch(n) ==
  n.pc = "awaitArtifactBuild" => IsMatchByTime(n.buildStartTime, closedDate)

AgreesWithOracle(s, n) ==
  LET foretold == s.oracle[s.candIdx]
      outcome == StepOutcome(s, n)
  IN \/ foretold = "free"
     \/ outcome = "match" /\ foretold = "match"
     \/ outcome = "other" /\ foretold = "other"
     \/ outcome = "open" /\ (foretold = "other" \/ CanStillMatch(n))

\* ---------------------------------------------------------------- histories
ScanShapes == { sh \in Shapes : sh.result # "Succeeded" /\ (sh.result = NoResult => sh.startTime) }

Min(a, b) == IF a <= b THEN a ELSE b

\* Histories of a run, at most `top` records each: "loop", "scan" and "trace" draw
\* every short history, "deep" the histories of one record per owner.
ShortHistories(n, owners) == HistoriesUpTo(Min(n, TopRecords), owners, ScanShapes)

\* ------------------------------------------------- an unchanged upstream
\* What the three lookups of an owner answer while the upstream state does
\* not change: a build that started after or before the merge, a build
\* without _links, nothing at all, a release with a commit hash as version,
\* a release that points to a build.
GoodBuild(t) == [found |-> TRUE, sourceVersion |-> "r_with", startTime |-> t,
                 links |-> TRUE, repository |-> PrRepo]

\* The upstream states: either the history request fails, or it answers a
\* history over the owners and each owner has its answers.
FailingUpstream ==
  [fn |-> "getPLGDeployments", failed |-> TRUE, history |-> <<>>,
   answers |-> [o \in 1..MaxUpstreamOwners |->
                  [build |-> NullBuild, release |-> NullRelease,
                   artifactBuild |-> NullBuild]]]

\* The answers a request can get: any, or the one of the upstream state.
AgainstUpstream == mode = "twice"

DeepHistories ==
  { [i \in 1..n |-> MkRecord(i, i, sh)] :
      n \in 1..Min(MaxHistory, TopRecords),
      sh \in { x \in ScanShapes : x.result # "failed" } }

Histories ==
  CASE mode = "loop" -> ShortHistories(MaxLoopRecords, 1..MaxLoopRecords)
    [] mode = "scan" -> ShortHistories(MaxScanRecords, 1..MaxOwner)
    [] mode = "trace" -> ShortHistories(MaxScanRecords, 1..MaxOwner)
    [] mode = "deep" -> DeepHistories
    [] mode = "twice" -> {arg.history}

\* ------------------------------------------------------------------ actions

Inputs == << mergeCommitId, closedDate, envs, mode >>

InitLocals ==
  /\ pc = "start"
  /\ hung = FALSE
  /\ envIdx = 0
  /\ validDeployments = <<>>
  /\ candIdx = 0
  /\ successfulChecks = 0
  /\ confirmedDeployment = NullRecord
  /\ deploymentStatus = "deployed"
  /\ confirmedUrl = "none"
  /\ sourceVersion = NoVersion
  /\ buildStartTime = NoDate
  /\ webUrl = "none"
  /\ deployments = <<>>
  /\ oracle = <<>>
  /\ fetchFailed = FALSE
  /\ examined = 0
  /\ checked = 0
  /\ positives = {}
  /\ trueAnc = 0
  /\ lastCheck = NoCheck
  /\ thrown = {}
  /\ done = NoDone
  /\ trail = <<>>
  /\ lastResolve = NoResolve
  /\ requested = <<>>

NoPureCall ==
  /\ arg = NoCall
  /\ ret = NoCall

Init ==
  /\ mergeCommitId \in {NoCommit, MergeCommit}
  /\ closedDate \in {NoDate, MergeTime}
  /\ envs \in { SubSeq(ALL_TRACKED_ENVIRONMENTS, 1, n) : n \in 1..NumEnvs }
  /\ mode = "loop"
  /\ records = <<>>
  /\ InitLocals
  /\ NoPage
  /\ NoPureCall

\* getPLGDeployments is called: the early return for an unmerged change, else
\* the first history request (adoService.ts:429-457).
Call ==
  /\ pc = "start"
  /\ arg.fn \in {"none", "getPLGDeployments"}
  /\ IF closedDate = NoDate \/ mergeCommitId = NoCommit
     THEN Apply([Cur EXCEPT !.deployments = UnmergedResult(envs), !.pc = "done"])
     ELSE Apply(NextEnv(Cur))
  /\ UNCHANGED << Page, Inputs, hung, records, arg, ret >>

\* The history request completes; a failed request gives the empty list
\* (adoService.ts:270-280).
RecordsReturn ==
  LET
      \* Continuation of `await this.getEnvironmentDeploymentRecords(...)`: the
      \* grouping and the start of the scan (adoService.ts:457-494).
      OnRecords(s, recs, orc) ==
        ScanFrom([s EXCEPT !.validDeployments = ValidDeployments(recs),
                           !.oracle = orc], 1)
      FetchFailures == IF AgainstUpstream THEN {arg.failed} ELSE BOOLEAN
  IN
  /\ pc = "awaitRecords"
  /\ ~hung
  /\ \E failed \in FetchFailures :
       \E recs \in (IF failed THEN {<<>>} ELSE Histories) :
         \E orc \in Oracles(ValidDeployments(recs)) :
           Apply(OnRecords([Cur EXCEPT !.fetchFailed = failed], recs, orc))
  /\ UNCHANGED << Page, Inputs, hung, records, arg, ret >>

BuildReturn ==
  LET
      \* new Date(s): a missing string gives an Invalid Date.
      NewDate(t) == IF t = NoDate THEN InvalidDate ELSE t
      \* Continuation of `await this.getBuildById(ownerId)` (adoService.ts:505-520).
      OnBuild(s0, build) ==
        LET s == Answered(s0, "build",
                          IF ~build.found THEN "null"
                          ELSE IF build.sourceVersion = NoVersion THEN "norev"
                          ELSE "rev", build.sourceVersion) IN
        IF build.found /\ build.sourceVersion # NoVersion
        THEN IF ~build.links
             THEN Throw(Ended([s EXCEPT !.sourceVersion = build.sourceVersion],
                              NoRepo, TRUE))
             ELSE OnResolved([s EXCEPT !.sourceVersion = build.sourceVersion,
                                       !.buildStartTime = NewDate(build.startTime),
                                       !.webUrl = "build"],
                             build.repository)
        ELSE Requested([s EXCEPT !.pc = "awaitRelease"], "release",
                       s.validDeployments[s.candIdx].owner)
      BuildAnswers ==
        IF AgainstUpstream
        THEN {arg.answers[validDeployments[candIdx].owner].build}
        ELSE BuildResponses
  IN
  /\ pc = "awaitBuild"
  /\ ~hung
  /\ \E build \in BuildAnswers :
       LET n == OnBuild(Cur, build)
       IN AgreesWithOracle(Cur, n) /\ Apply(n)
  /\ UNCHANGED << Page, Inputs, hung, records, arg, ret >>

ReleaseReturn ==
  LET
      \* getReleaseById: null when the request fails, else the ADORelease object;
      \* artifact describes release.artifacts and the version id of its first entry.
      ArtifactKinds == {"undefined", "empty", "noversion", "hash", "digits",
                        "mixed", "text"}
      ReleaseResponses ==
        {NullRelease} \cup
        { r \in [found : {TRUE}, links : BOOLEAN, createdOn : Times \cup {NoDate},
                 artifact : ArtifactKinds, rev : Revisions \cup {NoVersion}] :
            /\ (r.artifact = "hash") <=> (r.rev # NoVersion)
            \* the fields no statement reads are drawn once
            /\ ~r.links => r.createdOn = NoDate /\ r.artifact = "undefined" }
      \* Continuation of `await this.getReleaseById(ownerId)` (adoService.ts:520-551).
      OnRelease(s0, release) ==
        LET s == Answered(s0, "release",
                          IF ~release.found THEN "null"
                          ELSE IF ~release.links THEN "nolinks"
                          ELSE release.artifact, release.rev) IN
        IF ~release.found THEN OnResolved(s, NoRepo)
        ELSE IF ~release.links THEN Throw(Ended(s, NoRepo, TRUE))
        ELSE
          LET r == [s EXCEPT !.webUrl = "release",
                             !.buildStartTime = IF release.createdOn # NoDate
                                                THEN release.createdOn
                                                ELSE s.buildStartTime]
          IN CASE release.artifact = "undefined" -> Throw(Ended(r, NoRepo, TRUE))
               [] release.artifact = "hash" ->
                    OnResolved([r EXCEPT !.sourceVersion = release.rev], NoRepo)
               [] ParseIntIsNumber(release.artifact) ->
                    Requested([r EXCEPT !.pc = "awaitArtifactBuild"],
                              "artifactBuild", s.validDeployments[s.candIdx].owner)
               [] OTHER -> OnResolved(r, NoRepo)
      ReleaseAnswers ==
        IF AgainstUpstream
        THEN {arg.answers[validDeployments[candIdx].owner].release}
        ELSE ReleaseResponses
  IN
  /\ pc = "awaitRelease"
  /\ ~hung
  /\ \E release \in ReleaseAnswers :
       LET n == OnRelease(Cur, release)
       IN AgreesWithOracle(Cur, n) /\ Apply(n)
  /\ UNCHANGED << Page, Inputs, hung, records, arg, ret >>

ArtifactBuildReturn ==
  LET
      \* The build of a release's artifact: only its sourceVersion is read.
      ArtifactBuildResponses ==
        { b \in BuildResponses :
            b.startTime = NoDate /\ b.repository = NoRepo /\ (b.found => b.links) }
      \* Continuation of `await this.getBuildById(artifactBuildId)`
      \* (adoService.ts:542-547).
      OnArtifactBuild(s0, artifactBuild) ==
        LET s == Answered(s0, "artifactBuild",
                          IF ~artifactBuild.found THEN "null"
                          ELSE IF artifactBuild.sourceVersion = NoVersion THEN "norev"
                          ELSE "rev", artifactBuild.sourceVersion) IN
        IF artifactBuild.found
        THEN OnResolved([s EXCEPT !.sourceVersion = artifactBuild.sourceVersion], NoRepo)
        ELSE OnResolved(s, NoRepo)
      ArtifactBuildAnswers ==
        IF AgainstUpstream
        THEN {arg.answers[validDeployments[candIdx].owner].artifactBuild}
        ELSE ArtifactBuildResponses
  IN
  /\ pc = "awaitArtifactBuild"
  /\ ~hung
  /\ \E artifactBuild \in ArtifactBuildAnswers :
       LET n == OnArtifactBuild(Cur, artifactBuild)
       IN AgreesWithOracle(Cur, n) /\ Apply(n)
  /\ UNCHANGED << Page, Inputs, hung, records, arg, ret >>

\* The merge-base request completes: on a failure isCommitAncestor is false,
\* else it tells whether the merge commit is an ancestor of the revision.
\* No disjunct of Next: no tracked environment passes UseAncestry, so the
\* call is never suspended here.
MergeBaseReturn ==
  LET
      \* Continuation of `await this.isCommitAncestor(...)` (adoService.ts:569).
      OnMergeBase(s, isAncestor) ==
        AfterCheck([s EXCEPT !.lastCheck = [made |-> TRUE, sameRepo |-> TRUE,
                                            method |-> "ancestry",
                                            result |-> isAncestor]],
                   isAncestor)
  IN
  /\ pc = "awaitMergeBase"
  /\ ~hung
  /\ \E failed \in BOOLEAN :
       LET n == OnMergeBase(Cur, ~failed /\ sourceVersion \in Descendants)
       IN AgreesWithOracle(Cur, n) /\ Apply(n)
  /\ UNCHANGED << Page, Inputs, hung, records, arg, ret >>

\* The pending request never completes (fetch is given no timeout).
Hang ==
  LET
      AwaitStates == {"awaitRecords", "awaitBuild", "awaitRelease",
                      "awaitArtifactBuild", "awaitMergeBase"}
  IN
  /\ pc \in AwaitStates
  /\ ~hung
  /\ hung' = TRUE
  /\ UNCHANGED << Page, Inputs, pc, envIdx, records, validDeployments, candIdx,
                  successfulChecks, confirmedDeployment, deploymentStatus,
                  confirmedUrl, sourceVersion, buildStartTime, webUrl,
                  deployments, oracle, fetchFailed, examined, checked,
                  positives, trueAnc, lastCheck, thrown, done, trail,
                  lastResolve, requested, arg, ret >>

Next ==
  \/ Call
  \/ RecordsReturn
  \/ BuildReturn
  \/ ReleaseReturn
  \/ ArtifactBuildReturn
  \/ Hang

Spec == Init /\ [][Next]_vars

\* ------------------------------------------------- runs over one environment
InitOne(m) ==
  /\ mergeCommitId = MergeCommit
  /\ closedDate = MergeTime
  /\ envs = SubSeq(ALL_TRACKED_ENVIRONMENTS, 1, 1)
  /\ mode = m
  /\ records = <<>>
  /\ InitLocals
  /\ NoPage
  /\ NoPureCall

\* Every short history, with the outcome of each candidate foretold.
InitScan == InitOne("scan")
SpecScan == InitScan /\ [][Next]_vars

\* The same histories, with the lookups of the run traced.
InitTrace == InitOne("trace")
SpecTrace == InitTrace /\ [][Next]_vars

\* ------------------------------------- two calls against one upstream
\* A faulty variant: the result list is a field that outlives the call.
FreshResult_Kept(s) == s.deployments

\* const deployments: DeploymentStatus[] = [] (adoService.ts:449).
FreshResult(s) == <<>>

InitTwice ==
  LET
      GoodRelease(kind) ==
        [found |-> TRUE, links |-> TRUE, createdOn |-> AfterMerge, artifact |-> kind,
         rev |-> IF kind = "hash" THEN "r_with" ELSE NoVersion]
      OwnerAnswers ==
        { [build |-> GoodBuild(AfterMerge), release |-> NullRelease,
           artifactBuild |-> NullBuild],
          [build |-> GoodBuild(BeforeMerge), release |-> NullRelease,
           artifactBuild |-> NullBuild],
          [build |-> [GoodBuild(NoDate) EXCEPT !.links = FALSE,
                                               !.repository = NoRepo],
           release |-> NullRelease, artifactBuild |-> NullBuild],
          [build |-> NullBuild, release |-> NullRelease, artifactBuild |-> NullBuild],
          [build |-> NullBuild, release |-> GoodRelease("hash"),
           artifactBuild |-> NullBuild],
          [build |-> NullBuild, release |-> GoodRelease("digits"),
           artifactBuild |-> [GoodBuild(NoDate) EXCEPT !.repository = NoRepo]] }
      Upstreams ==
        {FailingUpstream} \cup
        { [fn |-> "getPLGDeployments", failed |-> FALSE, history |-> h,
           answers |-> a] :
            h \in HistoriesUpTo(MaxUpstreamOwners, 1..MaxUpstreamOwners, ScanShapes),
            a \in [1..MaxUpstreamOwners -> OwnerAnswers] }
  IN
  /\ mergeCommitId \in {NoCommit, MergeCommit}
  /\ mergeCommitId = NoCommit => arg = FailingUpstream
  /\ closedDate = MergeTime
  /\ envs = SubSeq(ALL_TRACKED_ENVIRONMENTS, 1, 1)
  /\ mode = "twice"
  /\ records = <<>>
  /\ InitLocals
  /\ NoPage
  /\ arg \in Upstreams
  /\ ret = NoCall

\* The first call has returned; its list is kept and getPLGDeployments is
\* called again with the same arguments (adoService.ts:429-457).
CallAgain ==
  LET
      \* The state of a call that has just been made: nothing of an earlier call
      \* but what FreshResult keeps.
      NewCall(s) ==
        [FreshLocals(s) EXCEPT !.deployments = FreshResult(s), !.envIdx = 0,
                               !.thrown = {}, !.done = NoDone, !.lastCheck = NoCheck]
  IN
  /\ pc = "done"
  /\ mode = "twice"
  /\ ret = NoCall
  /\ ret' = [fn |-> arg.fn, value |-> deployments]
  /\ IF closedDate = NoDate \/ mergeCommitId = NoCommit
     THEN Apply([NewCall(Cur) EXCEPT !.deployments = UnmergedResult(envs),
                                     !.pc = "done"])
     ELSE Apply(NextEnv(NewCall(Cur)))
  /\ UNCHANGED << Page, Inputs, hung, records, arg >>

NextTwice == Next \/ CallAgain
SpecTwice == InitTwice /\ [][NextTwice]_vars

\* Long histories of one record per owner.
InitDeep == InitOne("deep")
SpecDeep == InitDeep /\ [][Next]_vars

\* ------------------------------------------------------- the grouper alone
InitGrouper ==
  /\ mergeCommitId = MergeCommit
  /\ closedDate = MergeTime
  /\ envs = SubSeq(ALL_TRACKED_ENVIRONMENTS, 1, 1)
  /\ mode = "group"
  /\ InitLocals
  /\ NoPage
  /\ NoPureCall
  /\ \E k \in 0..Min(MaxRecords, TopRecords) :
       \E f \in [1..k -> (0..MaxOwner) \X Shapes] :
         records = [i \in 1..k |-> MkRecord(i, f[i][1], f[i][2])]

\* buildGroups and validDeployments applied to the fetched records
\* (adoService.ts:462-484).
Group ==
  /\ pc = "start"
  /\ pc' = "grouped"
  /\ validDeployments' = ValidDeployments(records)
  /\ UNCHANGED << Page, Inputs, hung, envIdx, records, candIdx, successfulChecks,
                  confirmedDeployment, deploymentStatus, confirmedUrl,
                  sourceVersion, buildStartTime, webUrl, deployments, oracle,
                  fetchFailed, examined, checked, positives, trueAnc,
                  lastCheck, thrown, done, trail, lastResolve, requested,
                  arg, ret >>

NextGrouper == Group

SpecGrouper == InitGrouper /\ [][NextGrouper]_vars

\* -------------------------------------------------------------- fair runs
\* Every request that does not hang is answered: a step that stays enabled
\* is taken.
SpecFair == Spec /\ WF_vars(Next)

\* Fair runs over all environments and fair runs with the lookups traced.
InitReturns == Init \/ InitTrace
SpecReturns == InitReturns /\ [][Next]_vars /\ WF_vars(Next)

\* ------------------------------------------------- the merge-base ancestry
\* Commit ids are sequences of characters one longer than the prefix the
\* code compares, so that ids can agree on the prefix and differ after it.
PrefixLen == 7
FullIds ==
  LET
      Prefixes == { <<"a", "a", "a", "a", "a", "a", "a">>,
                    <<"a", "a", "a", "a", "a", "a", "b">>,
                    <<"A", "a", "a", "a", "a", "a", "a">> }
  IN
  { p \o <<x>> : p \in Prefixes, x \in {"c", "d"} }
\* What the commitId of a merge-base entry can be: a full id, an abbreviated
\* one, the empty string, or absent.
NoId == <<"undefined">>

StartsWith(a, b) == Len(b) <= Len(a) /\ SubSeq(a, 1, Len(b)) = b

\* The test of mergeBases.some (adoService.ts:341-345, part_000:259-263).
BaseMatches(id, commitA) ==
  LET
      \* s.substring(0, 7)
      Substring7(s) == SubSeq(s, 1, Min(PrefixLen, Len(s)))
  IN
  \/ Lower(id) = Lower(commitA)
  \/ StartsWith(Lower(id), Substring7(Lower(commitA)))
  \/ StartsWith(Lower(commitA), Substring7(Lower(id)))

\* Array.prototype.some over the entries in order: an entry without commitId
\* throws when it is reached, a match before it ends the walk.
RECURSIVE SomeMatches(_, _)
SomeMatches(list, commitA) ==
  IF list = <<>> THEN "false"
  ELSE IF Head(list) = NoId THEN "throw"
  ELSE IF BaseMatches(Head(list), commitA) THEN "true"
  ELSE SomeMatches(Tail(list), commitA)

\* The body of the try block of isCommitAncestor (adoService.ts:335-348):
\* fetchAdo throws on a failed request, the log line maps every entry's
\* commitId before the test is made.
AncestorTry(commitA, response) ==
  IF ~response.ok THEN "throw"
  ELSE IF response.value = "undefined" THEN "false"
  ELSE IF response.value = "notarray" THEN "throw"
  ELSE IF \E i \in 1..Len(response.list) : response.list[i] = NoId THEN "throw"
  ELSE SomeMatches(response.list, commitA)

\* A faulty variant: the catch block rethrows.
Caught_Rethrown(outcome) == outcome

\* catch (error) { return false } (adoService.ts:349-352, part_000:264-266).
Caught(outcome) == IF outcome = "throw" THEN "false" ELSE outcome

\* isPRIncludedInBuild (part_000:250-267): a response that is not ok gives
\* false, then the same test without the log line.
IsPRIncludedInBuild(prMergeCommit, response) ==
  IF ~response.ok THEN "false"
  ELSE Caught(IF response.value = "undefined" THEN "false"
              ELSE IF response.value = "notarray" THEN "throw"
              ELSE SomeMatches(response.list, prMergeCommit))

\* ------------------------------------------------------- the train schedule
\* A Date is an instant counted in hours on the clock of the reference time
\* zone (America/Los_Angeles) from a Sunday 00:00; the fields of a Date are
\* read and written on the wall clock of the zone the program runs in, which
\* is tzOffset hours ahead of the reference zone. Daylight saving changes
\* are left out.
HoursPerDay == 24
DaysPerWeek == 7
Thursday == 4
ForkHour == 22
Wall(date, tzOffset) == date + tzOffset
GetDay(wall) == (wall \div HoursPerDay) % DaysPerWeek
GetHours(wall) == wall % HoursPerDay
\* date.setDate(date.getDate() + days)
AddDays(wall, days) == wall + days * HoursPerDay

\* The zones the program runs in: the reference zone and one ten hours
\* ahead of it.
TzOffsets == {0, 10}

\* daysUntilThursday (adoService.ts:730-746, part_000:128-137).
DaysUntilThursday(dayOfWeek, hours) ==
  IF dayOfWeek < Thursday THEN Thursday - dayOfWeek
  ELSE IF dayOfWeek = Thursday THEN (IF hours < ForkHour THEN 0 ELSE DaysPerWeek)
  ELSE (DaysPerWeek + Thursday) - dayOfWeek

\* new Date(mergeDate.toLocaleString('en-US', {timeZone})): the wall clock of
\* the reference zone is written out and read back as a wall clock of the
\* running zone.
ToReferenceWall(mergeDate, tzOffset) == Wall(mergeDate, 0) - tzOffset

\* getTrainForkDate (adoService.ts:722-753); the result is the instant of
\* the Date that is returned.
GetTrainForkDate(mergeDate, tzOffset) ==
  LET
      \* date.setHours(22, 0, 0, 0)
      SetHours(wall, hours) == (wall \div HoursPerDay) * HoursPerDay + hours
  IN
  LET mergeDatePST == ToReferenceWall(mergeDate, tzOffset)
      wall == Wall(mergeDatePST, tzOffset)
      daysUntilThursday == DaysUntilThursday(GetDay(wall), GetHours(wall))
      forkWall == SetHours(AddDays(wall, daysUntilThursday), ForkHour)
  IN forkWall - tzOffset

\* A faulty variant: the two canary rings have each other's offset.
Offsets_CanariesSwapped ==
  [edog |-> 1, daily |-> 1, dxt |-> 4, msit |-> 7, canary1 |-> 17,
   canary2 |-> 14, prod |-> 21]

\* The offsets table of calculateExpectedDates (part_000:143-151).
Offsets == [edog |-> 1, daily |-> 1, dxt |-> 4, msit |-> 7, canary1 |-> 14,
            canary2 |-> 17, prod |-> 21]

\* The fork date of calculateExpectedDates (part_000:126-140).
ExpectedForkDate(mergeDate, tzOffset) ==
  LET wall == Wall(mergeDate, tzOffset)
      daysUntilThursday == DaysUntilThursday(GetDay(wall), GetHours(wall))
  IN AddDays(wall, daysUntilThursday) - tzOffset

\* FE_ENVIRONMENTS (types/index.ts:14-21) with env.name.toLowerCase().
FE_ENVIRONMENTS ==
  << [id |-> 172, name |-> "EDOG", key |-> "edog"],
     [id |-> 190, name |-> "Daily", key |-> "daily"],
     [id |-> 191, name |-> "DXT", key |-> "dxt"],
     [id |-> 192, name |-> "MSIT", key |-> "msit"],
     [id |-> 310, name |-> "Canary1", key |-> "canary1"],
     [id |-> 300, name |-> "Canary2", key |-> "canary2"] >>

\* ------------------------------------------------ functions applied alone

InitPure ==
  LET
      \* The merge instants: some hours of every day of one week.
      MergeHours == {0, 9, 14, 21, 22, 23}
      MergeDates ==
        { (DaysPerWeek + d) * HoursPerDay + h : d \in 0..(DaysPerWeek - 1), h \in MergeHours }
      ScheduleCalls ==
        { [fn |-> f, mergeDate |-> d, tzOffset |-> z] :
            f \in {"getTrainForkDate", "calculateExpectedDates"},
            d \in MergeDates, z \in TzOffsets }
      \* The time comparison of one candidate: the observed instant of the
      \* candidate (absent, invalid or an instant) and the merge instant.
      TimeCalls ==
        { [fn |-> "timeHeuristic", startTime |-> st, mergeTime |-> mt] :
            st \in {NoDate, InvalidDate} \cup 0..MaxTime,
            mt \in {InvalidDate} \cup 0..MaxTime }
      EntryIds == FullIds \cup { <<"a", "a", "a", "a", "a", "a", "a">>, <<>>, NoId }
      \* The answer of the merge-bases request: the request fails (rejected fetch
      \* or a status that is not ok), or a body whose value is absent, not an
      \* array, or a list of entries.
      MergeBaseResponses ==
        { [ok |-> FALSE, value |-> "undefined", list |-> <<>>] } \cup
        { [ok |-> TRUE, value |-> v, list |-> <<>>] : v \in {"undefined", "notarray"} } \cup
        { [ok |-> TRUE, value |-> "array", list |-> l] :
            l \in UNION { [1..n -> EntryIds] : n \in 0..MaxBases } }
      AncestorCalls ==
        { [fn |-> f, commitA |-> a, response |-> rsp] :
            f \in {"isCommitAncestor", "isPRIncludedInBuild"},
            a \in FullIds, rsp \in MergeBaseResponses }
      PureCalls ==
        AncestorCalls \cup TimeCalls \cup ScheduleCalls
  IN
  /\ mergeCommitId = MergeCommit
  /\ closedDate = MergeTime
  /\ envs = SubSeq(ALL_TRACKED_ENVIRONMENTS, 1, 1)
  /\ mode = "pure"
  /\ records = <<>>
  /\ InitLocals
  /\ NoPage
  /\ arg \in PureCalls
  /\ ret = NoCall

Returns(value) ==
  /\ pc = "start"
  /\ pc' = "returned"
  /\ ret' = [fn |-> arg.fn, value |-> value]
  /\ UNCHANGED << Page, Inputs, hung, envIdx, records, validDeployments, candIdx,
                  successfulChecks, confirmedDeployment, deploymentStatus,
                  confirmedUrl, sourceVersion, buildStartTime, webUrl,
                  deployments, oracle, fetchFailed, examined, checked,
                  positives, trueAnc, lastCheck, thrown, done, trail,
                  lastResolve, requested, arg >>

CallIsCommitAncestor ==
  LET
      \* isCommitAncestor (adoService.ts:322-353).
      IsCommitAncestor(commitA, response) == Caught(AncestorTry(commitA, response))
  IN
  /\ arg.fn = "isCommitAncestor"
  /\ Returns(IsCommitAncestor(arg.commitA, arg.response))

CallIsPRIncludedInBuild ==
  /\ arg.fn = "isPRIncludedInBuild"
  /\ Returns(IsPRIncludedInBuild(arg.commitA, arg.response))

\* let isMatch = false; if (buildStartTime) { isMatch = ... }
\* (adoService.ts:562-581).
CallTimeHeuristic ==
  /\ arg.fn = "timeHeuristic"
  /\ Returns(IF IsMatchByTime(arg.startTime, arg.mergeTime)
             THEN "true" ELSE "false")

CallGetTrainForkDate ==
  /\ arg.fn = "getTrainForkDate"
  /\ Returns([forkDate |-> GetTrainForkDate(arg.mergeDate, arg.tzOffset)])

\* calculateExpectedDates and the expected date each environment is given
\* (part_000:110-117).
CallCalculateExpectedDates ==
  LET
      \* calculateExpectedDates (part_000:125-161): toISOString gives the instant.
      CalculateExpectedDates(mergeDate, tzOffset) ==
        LET forkWall == Wall(ExpectedForkDate(mergeDate, tzOffset), tzOffset)
        IN [env \in DOMAIN Offsets |-> AddDays(forkWall, Offsets[env]) - tzOffset]
      \* expectedDates[env.name.toLowerCase()] || undefined for each environment
      \* (part_000:110-117).
      ExpectedDateOf(expectedDates, env) ==
        IF env.key \in DOMAIN expectedDates THEN expectedDates[env.key] ELSE NoDate
  IN
  /\ arg.fn = "calculateExpectedDates"
  /\ LET expectedDates == CalculateExpectedDates(arg.mergeDate, arg.tzOffset)
     IN Returns([forkDate |-> ExpectedForkDate(arg.mergeDate, arg.tzOffset),
                 expectedDate |->
                   [i \in 1..Len(FE_ENVIRONMENTS) |->
                      ExpectedDateOf(expectedDates, FE_ENVIRONMENTS[i])],
                 result |-> expectedDates])

NextPure ==
  \/ CallIsCommitAncestor
  \/ CallIsPRIncludedInBuild
  \/ CallTimeHeuristic
  \/ CallGetTrainForkDate
  \/ CallCalculateExpectedDates

SpecPure == InitPure /\ [][NextPure]_vars

\* ------------------------------------------- the train-window fallback
ToUpperCase(name) ==
  LET
      \* Environment names are sequences of parts, so that toUpperCase, startsWith
      \* and substring(4) are computed on them.
      UpperPart(part) ==
        CASE part = "plg-" -> "PLG-"
          [] part = "Daily" -> "DAILY"
          [] part = "-Canary1" -> "-CANARY1"
          [] OTHER -> part
  IN
  [i \in 1..Len(name) |-> UpperPart(name[i])]

WindowDays == 35

\* The records of a history: succeeded ones whose instant
\* new Date(r.queueTime || r.startTime) is unusable or lies around the two
\* ends of the window, and records inside the window that did not succeed.
WindowDates(trainForkDate, searchEnd) ==
  { InvalidDate, trainForkDate - 1, trainForkDate, searchEnd, searchEnd + 1 }
WindowRecords(trainForkDate, searchEnd) ==
  { [result |-> "Succeeded", date |-> d] :
      d \in WindowDates(trainForkDate, searchEnd) }
  \cup { [result |-> x, date |-> trainForkDate] : x \in {"failed", NoResult} }

\* The filter of deploymentInTrainWindow (adoService.ts:838-843).
InTrainWindow(r, trainForkDate, searchEnd) ==
  /\ r.date # InvalidDate
  /\ r.date >= trainForkDate
  /\ r.date <= searchEnd
  /\ ToLower(r.result) = "succeeded"

\* .filter(...).sort(by date)[0]: the earliest record of the window, the
\* first of them in the history when several share the instant; 0 when none.
FirstInTrainWindow(recs, trainForkDate, searchEnd) ==
  LET hits == { i \in 1..Len(recs) : InTrainWindow(recs[i], trainForkDate, searchEnd) }
  IN IF hits = {} THEN 0
     ELSE CHOOSE i \in hits :
            \A j \in hits : \/ recs[i].date < recs[j].date
                            \/ recs[i].date = recs[j].date /\ i <= j

\* A faulty variant: a deployment of the window is reported as deployed.
WindowVerdict_Deployed(env, recs, trainForkDate, searchEnd) ==
  LET k == FirstInTrainWindow(recs, trainForkDate, searchEnd)
  IN IF k # 0
     THEN [environment |-> env.name, environmentId |-> env.id,
           status |-> "deployed", runId |-> k]
     ELSE [environment |-> env.name, environmentId |-> env.id,
           status |-> "notDeployed", runId |-> 0]

\* The entry pushed for one environment (adoService.ts:850-870).
WindowVerdict(env, recs, trainForkDate, searchEnd) ==
  LET k == FirstInTrainWindow(recs, trainForkDate, searchEnd)
  IN IF k # 0
     THEN [environment |-> env.name, environmentId |-> env.id,
           status |-> "unknown", runId |-> k]
     ELSE [environment |-> env.name, environmentId |-> env.id,
           status |-> "notDeployed", runId |-> 0]

ScanLocals == << validDeployments, candIdx, successfulChecks,
                 confirmedDeployment, deploymentStatus, confirmedUrl,
                 sourceVersion, buildStartTime, webUrl, oracle, fetchFailed,
                 examined, checked, positives, trueAnc, lastCheck, thrown,
                 done, trail, lastResolve, requested >>

InitWindow ==
  LET
      \* The merge instants of the runs of the train-window fallback.
      WindowMergeDates ==
        { (DaysPerWeek + d) * HoursPerDay + 14 : d \in {3, 4} }
  IN
  /\ mergeCommitId \in {NoCommit, MergeCommit}
  /\ closedDate \in WindowMergeDates
  /\ envs = <<>>
  /\ mode = "window"
  /\ records = <<>>
  /\ InitLocals
  /\ NoPage
  /\ arg \in { [fn |-> "getDeploymentsByMergeDate", tzOffset |-> z] : z \in TzOffsets }
  /\ ret = NoCall

\* getDeploymentsByMergeDate is called: the fork date, then the search for
\* builds with the commit when the commit is given (adoService.ts:772-779).
WindowCall ==
  LET
      \* searchEnd (adoService.ts:808-809).
      SearchEnd(trainForkDate, tzOffset) ==
        AddDays(Wall(trainForkDate, tzOffset), WindowDays) - tzOffset
  IN
  /\ pc = "start"
  /\ arg.fn = "getDeploymentsByMergeDate"
  /\ LET trainForkDate == GetTrainForkDate(closedDate, arg.tzOffset)
     IN ret' = [fn |-> arg.fn, trainForkDate |-> trainForkDate,
                searchEnd |-> SearchEnd(trainForkDate, arg.tzOffset)]
  /\ pc' = IF mergeCommitId # NoCommit THEN "awaitBuildSearch"
           ELSE "awaitEnvironments"
  /\ UNCHANGED << Page, Inputs, hung, envIdx, records, deployments, ScanLocals, arg >>

\* findBuildsContainingCommit answers: with builds the verdicts are those of
\* getDeploymentsForBuilds and the fallback is not taken
\* (adoService.ts:780-795).
BuildSearchReturn ==
  /\ pc = "awaitBuildSearch"
  /\ \E found \in BOOLEAN :
       pc' = IF found THEN "buildBased" ELSE "awaitEnvironments"
  /\ UNCHANGED << Page, Inputs, hung, envIdx, records, deployments, ScanLocals,
                  arg, ret >>

\* getEnvironments answers; the first history is requested
\* (adoService.ts:814-834).
EnvironmentsReturn ==
  LET
      \* What getEnvironments can answer; a failed request gives the empty list.
      EnvironmentLists ==
        { <<>>,
          << [id |-> 1, name |-> <<"PLG-", "EDOG">>] >>,
          << [id |-> 1, name |-> <<"plg-", "DXT">>],
             [id |-> 2, name |-> <<"RDL-", "Daily">>],
             [id |-> 3, name |-> <<"PLG-", "PROD", "-Canary1">>] >>,
          << [id |-> 1, name |-> <<"PLG-", "Daily">>] >> }
      plgStages == << <<"EDOG">>, <<"Daily">>, <<"DXT">>, <<"MSIT">>,
                      <<"PROD", "-Canary1">>, <<"PROD", "-Canary2">>, <<"PROD">> >>
      \* The filter of relevantEnvs (adoService.ts:820-826).
      IsRelevantEnv(env) ==
        LET name == ToUpperCase(env.name) IN
        /\ StartsWith(name, <<"PLG-">>)
        /\ LET stage == Tail(name)
           IN \E i \in 1..Len(plgStages) :
                stage = plgStages[i] \/ StartsWith(stage, plgStages[i])
  IN
  /\ pc = "awaitEnvironments"
  /\ \E environments \in EnvironmentLists :
       LET relevantEnvs == SelectSeq(environments, IsRelevantEnv)
       IN /\ envs' = relevantEnvs
          /\ envIdx' = IF relevantEnvs = <<>> THEN 0 ELSE 1
          /\ pc' = IF relevantEnvs = <<>> THEN "done" ELSE "awaitWindowRecords"
  /\ UNCHANGED << Page, mergeCommitId, closedDate, mode, hung, records, deployments,
                  ScanLocals, arg, ret >>

\* The history of one environment answers (a failed request gives the empty
\* list; a record that is null throws inside the filter), its entry is
\* pushed and the loop goes on (adoService.ts:832-882).
WindowRecordsReturn ==
  LET
      WindowHistories(trainForkDate, searchEnd) ==
        UNION { [1..n -> WindowRecords(trainForkDate, searchEnd)] :
                  n \in 0..MaxWindowRecords }
      \* The entry pushed by the catch block (adoService.ts:871-878).
      WindowCatch(env) ==
        [environment |-> env.name, environmentId |-> env.id, status |-> "unknown",
         runId |-> 0]
  IN
  /\ pc = "awaitWindowRecords"
  /\ \E threw \in BOOLEAN :
       \E recs \in WindowHistories(ret.trainForkDate, ret.searchEnd) :
         /\ threw => recs = <<>>
         /\ records' = recs
         /\ deployments' = Append(deployments,
               IF threw THEN WindowCatch(envs[envIdx])
               ELSE WindowVerdict(envs[envIdx], recs, ret.trainForkDate,
                                  ret.searchEnd))
  /\ IF envIdx < Len(envs)
     THEN envIdx' = envIdx + 1 /\ pc' = pc
     ELSE envIdx' = envIdx /\ pc' = "done"
  /\ UNCHANGED << Page, Inputs, hung, ScanLocals, arg, ret >>

NextWindow ==
  \/ WindowCall
  \/ BuildSearchReturn
  \/ EnvironmentsReturn
  \/ WindowRecordsReturn

\* The runs that end in a verdict without match: the scan of one
\* environment and the train-window fallback.
InitEstimate == InitScan \/ InitWindow
NextEstimate == Next \/ NextWindow
SpecEstimate == InitEstimate /\ [][NextEstimate]_vars

\* ------------------------------------------- the build-based tracking
\* detectProductPrefix (adoService.ts:399-410): the prefix found in the
\* branch name or the title, upper case, or null.
NoPrefix == "null"

\* The builds found to contain the change, and the records of a history: of
\* such a build in every shape, of another build, without owner.
OurBuild == 1

\* records.find(r => r.owner?.id && buildIds.has(r.owner.id)): the position
\* of the first such record, 0 when there is none.
FindOurs(recs, buildIds) ==
  LET hits == { i \in 1..Len(recs) :
                  recs[i].owner # 0 /\ recs[i].owner \in buildIds }
  IN IF hits = {} THEN 0 ELSE CHOOSE i \in hits : \A j \in hits : i <= j

TrackedEntry(env, status, matching) ==
  [environment |-> env.name, environmentId |-> env.id, status |-> status,
   matching |-> matching]

TrackFrame == << Page, hung, records, ScanLocals, arg >>

InitTrack ==
  LET
      DetectedPrefixes == {NoPrefix, "PLG", "RDL"}
  IN
  /\ mergeCommitId \in {NoCommit, MergeCommit}
  /\ closedDate = MergeTime
  /\ envs = <<>>
  /\ mode = "track"
  /\ records = <<>>
  /\ InitLocals
  /\ NoPage
  /\ arg \in { [fn |-> f, detectedPrefix |-> p] :
                 f \in {"getDeploymentsForBuilds", "getDeploymentsByBuildChanges"},
                 p \in DetectedPrefixes }
  /\ arg.fn = "getDeploymentsForBuilds" => mergeCommitId = MergeCommit
  /\ ret = NoCall

\* The function is called. getDeploymentsForBuilds is given the builds and
\* requests the environments (adoService.ts:893-896);
\* getDeploymentsByBuildChanges returns [] without a merge commit and else
\* searches the builds (adoService.ts:959-974).
TrackCall ==
  /\ pc = "start"
  /\ arg.fn \in {"getDeploymentsForBuilds", "getDeploymentsByBuildChanges"}
  /\ IF arg.fn = "getDeploymentsForBuilds"
     THEN /\ ret' = [fn |-> arg.fn, buildIds |-> {OurBuild}]
          /\ pc' = "awaitTrackedEnvironments"
     ELSE /\ ret' = ret
          /\ pc' = IF mergeCommitId = NoCommit \/ closedDate = NoDate
                   THEN "done" ELSE "awaitBuildsWithOurCode"
  /\ UNCHANGED << TrackFrame, Inputs, envIdx, deployments >>

\* findBuildsContainingCommit answers (adoService.ts:968-985).
BuildsWithOurCodeReturn ==
  /\ pc = "awaitBuildsWithOurCode"
  /\ \E found \in BOOLEAN :
       IF found
       THEN /\ ret' = [fn |-> arg.fn, buildIds |-> {OurBuild}]
            /\ pc' = "awaitTrackedEnvironments"
       ELSE ret' = ret /\ pc' = "done"
  /\ UNCHANGED << TrackFrame, Inputs, envIdx, deployments >>

\* getEnvironments answers; the first history is requested
\* (adoService.ts:896-912 and 985-1004).
TrackedEnvironmentsReturn ==
  LET
      TrackedEnvironmentLists ==
        { <<>>,
          << [id |-> 1, name |-> <<"plg-", "DXT">>] >>,
          << [id |-> 1, name |-> <<"PLG-", "EDOG">>],
             [id |-> 2, name |-> <<"RDL-", "Daily">>],
             [id |-> 3, name |-> <<"FMv2-", "DAILY">>] >> }
      WithDash(prefix) == IF prefix = "PLG" THEN "PLG-" ELSE "RDL-"
      \* The filter of relevantEnvs (adoService.ts:899-908 and 988-997).
      IsTrackedEnv(env, detectedPrefix) ==
        LET name == ToUpperCase(env.name) IN
        IF detectedPrefix # NoPrefix
        THEN StartsWith(name, <<WithDash(detectedPrefix)>>)
        ELSE \E p \in {"VIZ-", "PLG-", "RDL-", "SRC-"} : StartsWith(name, <<p>>)
  IN
  /\ pc = "awaitTrackedEnvironments"
  /\ \E environments \in TrackedEnvironmentLists :
       LET relevantEnvs ==
             SelectSeq(environments,
                       LAMBDA env : IsTrackedEnv(env, arg.detectedPrefix))
       IN /\ envs' = relevantEnvs
          /\ envIdx' = IF relevantEnvs = <<>> THEN 0 ELSE 1
          /\ pc' = IF relevantEnvs = <<>> THEN "done" ELSE "awaitTrackedRecords"
  /\ UNCHANGED << TrackFrame, mergeCommitId, closedDate, mode, deployments,
                  ret >>

\* The history of one environment answers (a record that is null throws
\* inside find), its entry is pushed and the loop goes on
\* (adoService.ts:910-943 and 1002-1054).
TrackedRecordsReturn ==
  LET
      TrackedShapes ==
        CheckedShapes \cup
        { [result |-> NoResult, startTime |-> TRUE, finishTime |-> TRUE],
          [result |-> "canceled", startTime |-> TRUE, finishTime |-> TRUE] }
      OtherBuild == 2
      TrackedRecords ==
        { [owner |-> OurBuild, result |-> sh.result, startTime |-> sh.startTime,
           finishTime |-> sh.finishTime] : sh \in TrackedShapes } \cup
        { [owner |-> o, result |-> "Succeeded", startTime |-> TRUE,
           finishTime |-> TRUE] : o \in {0, OtherBuild} }
      TrackedHistories ==
        UNION { [1..n -> TrackedRecords] : n \in 0..MaxTrackedRecords }
      \* The status of getDeploymentsByBuildChanges for a record
      \* (adoService.ts:1019-1026).
      StatusOfOurs(r) ==
        IF r.result # NoResult
        THEN IF ToLower(r.result) = "succeeded" THEN "deployed"
             ELSE IF ToLower(r.result) = "failed" THEN "unknown"
             ELSE "inProgress"
        ELSE IF ~r.finishTime THEN "inProgress"
        ELSE "deployed"
      \* The entry pushed for one environment: getDeploymentsForBuilds
      \* (adoService.ts:914-933), getDeploymentsByBuildChanges
      \* (adoService.ts:1007-1043). matching stands for the timestamp, runId and
      \* url taken from the record.
      TrackedVerdict(fn, env, recs, buildIds) ==
        LET k == FindOurs(recs, buildIds) IN
        IF k = 0 THEN TrackedEntry(env, "notDeployed", NullRecord)
        ELSE IF fn = "getDeploymentsForBuilds"
             THEN TrackedEntry(env, "deployed", recs[k])
             ELSE TrackedEntry(env, StatusOfOurs(recs[k]), recs[k])
  IN
  /\ pc = "awaitTrackedRecords"
  /\ \E threw \in BOOLEAN :
       \E recs \in (IF threw THEN {<<>>} ELSE TrackedHistories) :
         deployments' = Append(deployments,
           IF threw THEN TrackedEntry(envs[envIdx], "unknown", NullRecord)
           ELSE TrackedVerdict(arg.fn, envs[envIdx], recs, ret.buildIds))
  /\ IF envIdx < Len(envs)
     THEN envIdx' = envIdx + 1 /\ pc' = pc
     ELSE envIdx' = envIdx /\ pc' = "done"
  /\ UNCHANGED << TrackFrame, Inputs, ret >>

NextTrack ==
  \/ TrackCall
  \/ BuildsWithOurCodeReturn
  \/ TrackedEnvironmentsReturn
  \/ TrackedRecordsReturn

SpecTrack == InitTrack /\ [][NextTrack]_vars

\* ------------------------------------------- checkEnvironmentStatus
\* The merge commit the environment is checked for, a revision that agrees
\* with it on the compared prefix, and one that does not.
PrMergeCommit == <<"a", "a", "a", "a", "a", "a", "a", "c">>

\* buildMap (part_000:206-211): the first succeeded record of each owner, in
\* the order of the owners' first succeeded records.
BuildMap(recs) ==
  LET hits == SelectSeq(recs, LAMBDA r : r.owner # 0 /\ IsSucceeded(r))
      keys == GroupKeys(hits)
  IN [i \in 1..Len(keys) |-> Head(GroupOf(hits, keys[i]))]

\* records.find(r => !r.finishTime) (part_000:213).
HasUnfinished(recs) == \E i \in 1..Len(recs) : ~recs[i].finishTime

\* The statements after the loop over buildMap (part_000:231-232).
AfterBuilds(recs) ==
  IF HasUnfinished(recs) THEN "in-progress" ELSE "not-included"

CheckReturns(status, buildId) ==
  /\ pc' = "returned"
  /\ ret' = [fn |-> arg.fn, status |-> status, buildId |-> buildId]
  /\ UNCHANGED candIdx

\* for (const [buildId, record] of buildMap) from position k on
\* (part_000:215-216).
NextBuild(k, recs, buildMap) ==
  IF k > Len(buildMap) THEN CheckReturns(AfterBuilds(recs), 0)
  ELSE /\ pc' = "awaitFetchBuild"
       /\ candIdx' = k
       /\ UNCHANGED ret

CheckFrame == << Inputs, hung, envIdx, deployments, successfulChecks,
                 confirmedDeployment, deploymentStatus, confirmedUrl,
                 sourceVersion, buildStartTime, webUrl, oracle, fetchFailed,
                 examined, checked, positives, trueAnc, lastCheck, thrown,
                 done, trail, lastResolve, requested, arg, Page >>

InitCheck ==
  LET
      FailedBases == [ok |-> FALSE, value |-> "undefined", list |-> <<>>]
      BasesAre(list) == [ok |-> TRUE, value |-> "array", list |-> list]
      Unrelated == <<"a", "a", "a", "a", "a", "a", "b", "c">>
      PrefixTwin == <<"a", "a", "a", "a", "a", "a", "a", "d">>
      \* What the upstream holds for an owner: the answer of fetchBuild (null, a
      \* build without sourceVersion, a build with one), whether the merge commit
      \* is an ancestor of that source version, and the answer of the merge-bases
      \* request: the merge commit itself when it is an ancestor, other revisions
      \* or none when it is not, or a failure.
      OwnerFacts ==
        { [found |-> FALSE, sourceVersion |-> FALSE, ancestor |-> FALSE,
           bases |-> FailedBases],
          [found |-> TRUE, sourceVersion |-> FALSE, ancestor |-> FALSE,
           bases |-> FailedBases] } \cup
        { [found |-> TRUE, sourceVersion |-> TRUE, ancestor |-> TRUE, bases |-> b] :
            b \in {BasesAre(<<PrMergeCommit>>), FailedBases} } \cup
        { [found |-> TRUE, sourceVersion |-> TRUE, ancestor |-> FALSE, bases |-> b] :
            b \in {BasesAre(<<>>), BasesAre(<<Unrelated>>), BasesAre(<<PrefixTwin>>)} }
      \* The upstream of one environment: whether the records request is answered
      \* with ok, the records, the facts of each owner.
      EnvironmentUpstreams ==
        { [fn |-> "checkEnvironmentStatus", recordsOk |-> ok, history |-> h,
           facts |-> f] :
            ok \in BOOLEAN,
            h \in HistoriesUpTo(MaxUpstreamOwners, 0..MaxUpstreamOwners, CheckedShapes),
            f \in [1..MaxUpstreamOwners -> OwnerFacts] }
  IN
  /\ mergeCommitId = MergeCommit
  /\ closedDate = MergeTime
  /\ envs = <<>>
  /\ mode = "check"
  /\ records = <<>>
  /\ InitLocals
  /\ NoPage
  /\ arg \in EnvironmentUpstreams
  /\ ret = NoCall

\* checkEnvironmentStatus is called: the records are requested
\* (part_000:197-199).
CheckCall ==
  /\ pc = "start"
  /\ arg.fn = "checkEnvironmentStatus"
  /\ pc' = "awaitRecordsResponse"
  /\ UNCHANGED << CheckFrame, records, validDeployments, candIdx, ret >>

\* The records request is answered (part_000:200-216).
RecordsResponse ==
  /\ pc = "awaitRecordsResponse"
  /\ IF ~arg.recordsOk
     THEN CheckReturns("error", 0) /\ UNCHANGED << records, validDeployments >>
     ELSE IF arg.history = <<>>
     THEN CheckReturns("no-builds", 0) /\ UNCHANGED << records, validDeployments >>
     ELSE /\ records' = arg.history
          /\ validDeployments' = BuildMap(arg.history)
          /\ NextBuild(1, arg.history, BuildMap(arg.history))
  /\ UNCHANGED CheckFrame

\* fetchBuild is answered (part_000:216-219).
FetchBuildReturn ==
  /\ pc = "awaitFetchBuild"
  /\ LET build == arg.facts[validDeployments[candIdx].owner]
     IN IF build.found /\ build.sourceVersion
        THEN pc' = "awaitIncluded" /\ UNCHANGED << candIdx, ret >>
        ELSE NextBuild(candIdx + 1, records, validDeployments)
  /\ UNCHANGED << CheckFrame, records, validDeployments >>

\* isPRIncludedInBuild is answered (part_000:219-229).
IncludedReturn ==
  /\ pc = "awaitIncluded"
  /\ LET owner == validDeployments[candIdx].owner
         isAncestor == IsPRIncludedInBuild(PrMergeCommit, arg.facts[owner].bases)
     IN IF isAncestor = "true"
        THEN CheckReturns("included", owner)
        ELSE NextBuild(candIdx + 1, records, validDeployments)
  /\ UNCHANGED << CheckFrame, records, validDeployments >>

NextCheck ==
  \/ CheckCall
  \/ RecordsResponse
  \/ FetchBuildReturn
  \/ IncludedReturn

SpecCheck == InitCheck /\ [][NextCheck]_vars

\* The two functions that report an environment as in progress: the scan of
\* getPLGDeployments over one environment and checkEnvironmentStatus.
InitProgress == InitScan \/ InitCheck
NextProgress == Next \/ NextCheck
SpecProgress == InitProgress /\ [][NextProgress]_vars

\* ------------------------------------------------------------ the page
\* The texts of the two fields: sequences of characters, so that trim is
\* computed.
Texts == UNION { [1..n -> {" ", "a", "b"}] : n \in 0..MaxText }

\* String.prototype.trim.
RECURSIVE TrimStart(_)
TrimStart(s) ==
  IF s # <<>> /\ Head(s) = " " THEN TrimStart(Tail(s)) ELSE s
RECURSIVE TrimEnd(_)
TrimEnd(s) ==
  IF s # <<>> /\ s[Len(s)] = " " THEN TrimEnd(SubSeq(s, 1, Len(s) - 1)) ELSE s
Trim(s) == TrimEnd(TrimStart(s))

PageFrame == << Inputs, pc, hung, envIdx, records, deployments, ScanLocals,
                arg, ret >>

InitApp ==
  /\ mergeCommitId = NoCommit
  /\ closedDate = NoDate
  /\ envs = <<>>
  /\ mode = "app"
  /\ records = <<>>
  /\ InitLocals
  /\ NoPureCall
  /\ localStorage = [ado_pat |-> NullItem]
  /\ app = [mounted |-> TRUE, prUrl |-> <<>>, pat |-> <<>>, loading |-> FALSE,
            error |-> FALSE, result |-> FALSE]

\* onChange of the two inputs, disabled while loading (App.tsx:80-98).
SetPrUrl ==
  /\ ~app.loading
  /\ \E value \in Texts : app' = [app EXCEPT !.prUrl = value]
  /\ UNCHANGED << PageFrame, localStorage >>

SetPat ==
  /\ ~app.loading
  /\ \E value \in Texts : app' = [app EXCEPT !.pat = value]
  /\ UNCHANGED << PageFrame, localStorage >>

\* handleSubmit up to its await (App.tsx:15-27).
HandleSubmit ==
  /\ ~app.loading
  /\ Trim(app.prUrl) # <<>>
  /\ Trim(app.pat) # <<>>
  /\ app' = [app EXCEPT !.loading = TRUE, !.error = FALSE, !.result = FALSE]
  /\ localStorage' = [localStorage EXCEPT !.ado_pat = app.pat]
  /\ UNCHANGED PageFrame

\* checkPRDeploymentStatus settles (App.tsx:27-33).
SubmitSettles ==
  /\ app.loading
  /\ \E ok \in BOOLEAN :
       app' = [app EXCEPT !.loading = FALSE, !.result = ok, !.error = ~ok]
  /\ UNCHANGED << PageFrame, localStorage >>

\* The page is loaded again: the component is mounted anew, the storage stays.
Reload ==
  LET
      \* localStorage.getItem('ado_pat') || '' (App.tsx:9).
      StoredPat == IF localStorage.ado_pat = NullItem THEN <<>> ELSE localStorage.ado_pat
      \* The state of the component when it is mounted (App.tsx:7-13).
      Mounted ==
        [mounted |-> TRUE, prUrl |-> <<>>, pat |-> StoredPat, loading |-> FALSE,
         error |-> FALSE, result |-> FALSE]
  IN
  /\ app' = Mounted
  /\ UNCHANGED << PageFrame, localStorage >>

NextApp ==
  \/ SetPrUrl
  \/ SetPat
  \/ HandleSubmit
  \/ SubmitSettles
  \/ Reload

SpecApp == InitApp /\ [][NextApp]_vars

\* ------------------------------------------------------------------ claims
\* C1: when getPLGDeployments returns, the list has one entry per tracked
\* environment, in the order of the environments, each environment id once,
\* whatever the upstream answered.
C1_OneVerdictPerEnvironment ==
  pc = "done" =>
    /\ Len(deployments) = Len(envs)
    /\ \A i \in 1..Len(envs) : deployments[i].environmentId = envs[i].adoEnvId
    /\ \A i, j \in 1..Len(deployments) :
         i # j => deployments[i].environmentId # deployments[j].environmentId

\* A returned list in which one environment failed and another is deployed.
C1_Witness ==
  /\ pc = "done"
  /\ Len(envs) = NumEnvs
  /\ thrown # {}
  /\ \E j \in 1..Len(deployments) : deployments[j].status = "deployed"

\* C2: an exception while one environment is processed gives that
\* environment the plain verdict unknown, the loop goes on with the next
\* environment from fresh locals (the call does not end there), and no step
\* changes or removes a verdict that was pushed before.
C2_FailureIsIsolated ==
  /\ [](/\ \A i \in thrown :
            /\ i <= Len(deployments)
            /\ deployments[i] = PlainVerdict(envs[i], "unknown")
            /\ IF i < Len(envs) THEN envIdx > i ELSE pc = "done"
        /\ (done.threw /\ done.env < Len(envs)) =>
            /\ pc = "awaitRecords"
            /\ envIdx = done.env + 1
            /\ Len(deployments) = done.env
            /\ validDeployments = <<>>
            /\ confirmedDeployment = NullRecord
            /\ deploymentStatus = "deployed"
            /\ sourceVersion = NoVersion
            /\ buildStartTime = NoDate)
  /\ [][\A i \in 1..Len(deployments) :
          i <= Len(deployments') /\ deployments'[i] = deployments[i]]_vars

\* The first environment threw and the second one is still reported deployed.
C2_Witness ==
  /\ pc = "done"
  /\ 1 \in thrown
  /\ Len(deployments) >= 2
  /\ deployments[1].status = "unknown"
  /\ deployments[2].status = "deployed"
  /\ deployments[2].buildId # 0

\* C3 (as claimed): a candidate that reached the inclusion check with a
\* succeeded representative, a build of the tracked repository and a revision
\* that descends from the merge commit makes the verdict deployed, with that
\* group as the matched attempt.
C3_TrueAncestorIsDeployed ==
  (done.env # 0 /\ done.trueAnc # 0) =>
    LET v == deployments[done.env]
        g == done.candidates[done.trueAnc]
    IN /\ v.status = "deployed"
       /\ v.buildId = g.owner
       /\ v.timestamp = TimestampOf(g)

\* C4 (as claimed): a candidate whose same-repository flag is true is decided
\* by the merge-base ancestry query, the time comparison decides only
\* candidates whose flag is false.
C4_SameRepoUsesAncestry ==
  lastCheck.made =>
    /\ lastCheck.sameRepo => lastCheck.method = "ancestry"
    /\ lastCheck.method = "time" => ~lastCheck.sameRepo

\* C5: when candidates of the environment would give a positive verdict and
\* no exception ends the scan, the matched attempt is the first of them in
\* scan order and the scan examined no candidate after it.
FirstForetold(orc) ==
  CHOOSE k \in 1..Len(orc) :
    orc[k] = "match" /\ \A j \in 1..(k - 1) : orc[j] # "match"

C5_FirstMatchInScanOrder ==
  (/\ done.env # 0
   /\ ~done.threw
   /\ \E k \in 1..Len(done.oracle) : done.oracle[k] = "match") =>
    LET f == FirstForetold(done.oracle)
        v == deployments[done.env]
        g == done.candidates[f]
    IN /\ v.buildId = g.owner
       /\ v.timestamp = TimestampOf(g)
       /\ v.status = MatchStatus(g)
       /\ done.examined = f
       /\ done.positives = {f}

\* Two candidates would match; the first in scan order is the verdict's.
C5_Witness ==
  /\ done.env # 0
  /\ ~done.threw
  /\ Len(done.oracle) >= 2
  /\ done.oracle[1] = "match"
  /\ done.oracle[2] = "match"
  /\ deployments[done.env].buildId = done.candidates[1].owner
  /\ done.examined = 1

\* C6 (as claimed): the scan of one environment examines at most maxChecks
\* candidates, and at most maxChecks reach the inclusion check.
C6_ScanIsCapped ==
  /\ examined <= maxChecks
  /\ checked <= maxChecks
  /\ done.examined <= maxChecks

\* C7 (as claimed): when the history request of an environment fails, the
\* verdict of that environment is unknown.
C7_FailedFetchIsUnknown ==
  (done.env # 0 /\ done.fetchFailed) => deployments[done.env].status = "unknown"

\* C8 (as claimed): when the request of one environment never completes,
\* the verdict of every other environment is still collected.
C8_OthersAreNotDelayed ==
  \A j \in 1..NumEnvs :
    [](hung /\ j <= Len(envs) /\ j # envIdx => <>(Len(deployments) >= j))

\* What the claims say of the attempts of the records.
SucceededAttempt(r) == r.result \in {"succeeded", "Succeeded"}
InProgressAttempt(r) == r.result = NoResult /\ r.startTime /\ ~r.finishTime
AttemptsOf(o) == { i \in 1..Len(records) : records[i].owner = o }
RepresentativesOf(o) ==
  { k \in 1..Len(validDeployments) : validDeployments[k].owner = o }
OwnerIds == { records[i].owner : i \in 1..Len(records) } \ {0}

\* C9: every owner with a succeeded attempt has one representative, a
\* succeeded attempt of it; every other owner with an in-progress attempt
\* has one, an in-progress attempt of it; every other owner has none, and
\* nothing else is a candidate.
C9_RepresentativeRule ==
  pc = "grouped" =>
    /\ \A o \in OwnerIds :
         LET reps == RepresentativesOf(o)
             attempts == { records[i] : i \in AttemptsOf(o) }
         IN IF \E r \in attempts : SucceededAttempt(r)
            THEN /\ Cardinality(reps) = 1
                 /\ \A k \in reps : /\ validDeployments[k] \in attempts
                                    /\ SucceededAttempt(validDeployments[k])
            ELSE IF \E r \in attempts : InProgressAttempt(r)
            THEN /\ Cardinality(reps) = 1
                 /\ \A k \in reps : /\ validDeployments[k] \in attempts
                                    /\ InProgressAttempt(validDeployments[k])
            ELSE reps = {}
    /\ \A k \in 1..Len(validDeployments) : validDeployments[k].owner \in OwnerIds

\* An owner with a running attempt before its succeeded one is represented by
\* the succeeded one, and an owner with failed attempts only is dropped.
C9_Witness ==
  /\ pc = "grouped"
  /\ \E i, j \in 1..Len(records) :
       /\ i < j
       /\ records[i].owner = records[j].owner
       /\ InProgressAttempt(records[i])
       /\ SucceededAttempt(records[j])
       /\ Len(validDeployments) >= 1
       /\ validDeployments[1] = records[j]
  /\ \E o \in OwnerIds : RepresentativesOf(o) = {}

FirstAttempt(o) ==
  CHOOSE i \in AttemptsOf(o) : \A j \in AttemptsOf(o) : i <= j

\* C10: the representatives are in the order in which their owners first
\* appear in the records.
C10_OrderOfFirstAppearance ==
  pc = "grouped" =>
    \A a, b \in 1..Len(validDeployments) :
      a < b => FirstAttempt(validDeployments[a].owner)
                 < FirstAttempt(validDeployments[b].owner)

\* The first owner's representative is a later record than the second's.
C10_Witness ==
  /\ pc = "grouped"
  /\ Len(validDeployments) = 2
  /\ validDeployments[1].id > validDeployments[2].id

\* C11: the owner is looked up as a build first; the release is asked only
\* when the build is missing or has no source version; a 40-hex version id
\* of the release's first artifact is the revision; a numeric one is looked
\* up as a build exactly once and gives that build's source version; no
\* lookup follows the artifact build and no second release is asked.
Lookups(T) == [i \in 1..Len(T) |-> T[i].kind]

C11_TrailIsWellFormed(T) ==
  /\ \E n \in 0..3 : Lookups(T) = SubSeq(<<"build", "release", "artifactBuild">>, 1, n)
  /\ Len(T) >= 2 => T[1].outcome \in {"null", "norev"}
  /\ Len(T) >= 3 => T[2].outcome \in {"digits", "mixed"}

C11_BuildThenReleaseOneHop ==
  /\ C11_TrailIsWellFormed(trail)
  /\ pc = "awaitBuild" => trail = <<>>
  /\ pc = "awaitRelease" => Len(trail) = 1
  /\ pc = "awaitArtifactBuild" => Len(trail) = 2
  /\ lastResolve.made =>
       LET T == lastResolve.trail IN
       /\ C11_TrailIsWellFormed(T)
       /\ T # <<>>
       /\ T[1].outcome = "rev" =>
            Len(T) = 1 /\ lastResolve.revision = T[1].rev
       /\ (~lastResolve.threw /\ T[1].outcome # "rev") =>
            /\ Len(T) >= 2
            /\ T[2].outcome = "hash" =>
                 Len(T) = 2 /\ lastResolve.revision = T[2].rev
            /\ T[2].outcome = "digits" =>
                 Len(T) = 3 /\ lastResolve.revision = T[3].rev
            /\ T[2].outcome \in {"null", "empty", "noversion", "text"} =>
                 Len(T) = 2 /\ lastResolve.revision = NoVersion

\* A release whose numeric version id led to a build with a source version.
C11_Witness ==
  /\ lastResolve.made
  /\ ~lastResolve.threw
  /\ Len(lastResolve.trail) = 3
  /\ lastResolve.trail[1].outcome = "null"
  /\ lastResolve.trail[2].outcome = "digits"
  /\ lastResolve.trail[3].outcome = "rev"
  /\ lastResolve.revision = "r_with"

\* C12 (as claimed): when the resolution of a candidate ends without a
\* revision, nothing was thrown out of it and the scan goes on: either the
\* next candidate is being looked up, or no candidate is left and the
\* environment gets the verdict of a scan without match.
C12_UnresolvedIsSkipped ==
  (lastResolve.made /\ lastResolve.revision = NoVersion) =>
    /\ ~lastResolve.threw
    /\ \/ /\ pc = "awaitBuild"
          /\ candIdx > lastResolve.cand
          /\ done.env = 0
       \/ /\ done.env # 0
          /\ ~done.threw
          /\ \A k \in (lastResolve.cand + 1)..Len(done.candidates) :
                done.candidates[k].owner = 0
          /\ deployments[done.env].status = "waitingForTrain"

\* Two ids name the same revision when they are equal up to the case of
\* their hex digits.
SameRevision(x, y) ==
  /\ Len(x) = Len(y)
  /\ \A i \in 1..Len(x) : x[i] = y[i] \/ {x[i], y[i]} = {"a", "A"}

OneBase == arg.response.ok /\ arg.response.value = "array"
           /\ Len(arg.response.list) = 1 /\ arg.response.list[1] \in FullIds

\* C13 (as claimed): when the merge-base query of A against B answers [A]
\* the ancestry check is true, and when it answers [C] for a revision C
\* other than A it is false.
C13_AncestorIffMergeBaseIsA ==
  (ret.fn \in {"isCommitAncestor", "isPRIncludedInBuild"} /\ OneBase) =>
    (ret.value = "true" <=> SameRevision(arg.response.list[1], arg.commitA))

Malformed(response) ==
  \/ ~response.ok
  \/ response.value = "notarray"
  \/ \E i \in 1..Len(response.list) : response.list[i] = NoId

\* C14: isCommitAncestor is false, and does not throw, when the merge-base
\* request fails or its body is malformed; the time comparison is false, and
\* does not throw, when the candidate has no usable instant.
C14_FailuresGiveFalse ==
  /\ (ret.fn = "isCommitAncestor" /\ Malformed(arg.response)) =>
       ret.value = "false"
  /\ (ret.fn = "timeHeuristic" /\ arg.startTime \in {NoDate, InvalidDate}) =>
       ret.value = "false"
  /\ ret.fn \in {"isCommitAncestor", "timeHeuristic"} =>
       ret.value \in {"true", "false"}

\* A body with an entry that lacks its commitId beside one that equals A.
C14_Witness ==
  /\ ret.fn = "isCommitAncestor"
  /\ arg.response.ok
  /\ Len(arg.response.list) = 2
  /\ arg.response.list[1] = arg.commitA
  /\ arg.response.list[2] = NoId
  /\ ret.value = "false"

\* C15: with an instant on both sides the time comparison is true exactly
\* when the candidate's instant is strictly later than the merge instant:
\* earlier and equal give false, later gives true.
C15_StrictlyLater ==
  (ret.fn = "timeHeuristic" /\ arg.startTime \in 0..MaxTime
                            /\ arg.mergeTime \in 0..MaxTime) =>
    /\ arg.startTime < arg.mergeTime => ret.value = "false"
    /\ arg.startTime = arg.mergeTime => ret.value = "false"
    /\ arg.startTime > arg.mergeTime => ret.value = "true"

\* An instant equal to the merge instant was compared.
C15_Witness ==
  /\ ret.fn = "timeHeuristic"
  /\ arg.startTime = arg.mergeTime
  /\ arg.startTime \in 0..MaxTime
  /\ ret.value = "false"

\* Names compared without regard to case.
UpperChar(c) ==
  IF c = "p" THEN "P" ELSE IF c = "b" THEN "B" ELSE IF c = "a" THEN "A" ELSE c
ContainsIgnoringCase(a, b) ==
  \E i \in 0..(Len(a) - Len(b)) :
    \A k \in 1..Len(b) : UpperChar(a[i + k]) = UpperChar(b[k])

\* C16: the same-repository flag of a checked candidate is true exactly when
\* the origin repository name is known and, ignoring case, equals, contains
\* or is contained in the tracked repository name; a candidate resolved
\* through a release has no origin and its flag is false.
C16_SameRepoFlag ==
  (lastCheck.made /\ lastResolve.made) =>
    LET origin == lastResolve.origin
        known == origin # NoRepo /\ origin # <<>>
    IN /\ lastCheck.sameRepo <=>
            (known /\ (\/ ContainsIgnoringCase(origin, PrRepo)
                       \/ ContainsIgnoringCase(PrRepo, origin)))
       /\ Len(lastResolve.trail) >= 2 => (~known /\ ~lastCheck.sameRepo)

\* A build of a repository whose name differs from the tracked one in case.
C16_Witness ==
  /\ lastCheck.made
  /\ lastResolve.made
  /\ lastResolve.origin = <<"p", "B">>
  /\ lastCheck.sameRepo

\* The earliest Thursday 22:00 of the reference zone strictly after t.
TrueFork(t) ==
  CHOOSE x \in (t + 1)..(t + DaysPerWeek * HoursPerDay) :
    GetDay(x) = Thursday /\ GetHours(x) = ForkHour

\* C17 (as claimed): for every merge instant the estimator's fork instant is
\* the earliest Thursday 22:00 of the reference zone strictly later than the
\* merge, so it is later than the merge and at most 7 days after it.
C17_ForkIsNextThursdayTenPm ==
  ret.fn \in {"getTrainForkDate", "calculateExpectedDates"} =>
    /\ ret.value.forkDate = TrueFork(arg.mergeDate)
    /\ ret.value.forkDate > arg.mergeDate
    /\ ret.value.forkDate - arg.mergeDate <= DaysPerWeek * HoursPerDay

\* C18 (as claimed): the expected date of every environment is the fork
\* instant of the change's cycle, Thursday 22:00, plus the environment's
\* offset in whole days.
C18_ExpectedIsForkPlusOffset ==
  ret.fn = "calculateExpectedDates" =>
    \A i \in 1..Len(FE_ENVIRONMENTS) :
      ret.value.expectedDate[i] =
        TrueFork(arg.mergeDate) + Offsets[FE_ENVIRONMENTS[i].key] * HoursPerDay

\* C19: a verdict without a candidate that passed the inclusion check is
\* never deployed or inProgress: neither the verdict of a scan without a
\* positive check, nor any entry of the train-window fallback.
C19_EstimateIsNotAMatch ==
  /\ (mode # "window" /\ done.env # 0 /\ done.positives = {}) =>
       deployments[done.env].status \notin {"deployed", "inProgress"}
  /\ mode = "window" =>
       \A i \in 1..Len(deployments) :
         deployments[i].status \notin {"deployed", "inProgress"}

\* The fallback found a succeeded deployment inside the train window.
C19_Witness ==
  /\ mode = "window"
  /\ pc = "done"
  /\ Len(deployments) >= 1
  /\ deployments[1].runId # 0
  /\ deployments[1].status = "unknown"

\* No lookup of the run was issued twice for the same environment or owner.
NoLookupTwice ==
  \A i, j \in 1..Len(requested) : requested[i] = requested[j] => i = j

\* The resolution that just ended had a failed request as its last answer,
\* and the candidate was skipped: no revision, no exception.
FailedLookupSkips ==
  (/\ lastResolve.made
   /\ lastResolve.trail # <<>>
   /\ lastResolve.trail[Len(lastResolve.trail)].outcome = "null") =>
    /\ ~lastResolve.threw
    /\ lastResolve.revision = NoVersion

\* C20: no lookup is issued twice for its environment or owner, a failed
\* build or release lookup ends in the skip of the candidate, and a failed
\* history request ends in the verdict unknown.
C20_NoRetry ==
  /\ NoLookupTwice
  /\ FailedLookupSkips
  /\ (done.env # 0 /\ done.fetchFailed) =>
       deployments[done.env].status = "unknown"

\* The same without the history request: what holds of the lookups of the
\* candidates.
C20_NoRetryOfCandidateLookups ==
  /\ NoLookupTwice
  /\ FailedLookupSkips

\* C21: the second of two calls with the same arguments against the same
\* upstream state returns the list the first call returned.
C21_SecondCallReturnsTheSame ==
  (mode = "twice" /\ pc = "done" /\ ret # NoCall) => deployments = ret.value

\* Both calls returned, with a matched attempt whose link was written back.
C21_Witness ==
  /\ mode = "twice"
  /\ pc = "done"
  /\ ret # NoCall
  /\ Len(deployments) = 1
  /\ deployments[1].status = "deployed"
  /\ deployments[1].url = "release"

\* C22: the personal access token is never in persistent storage: no state
\* of the page has it under a key of localStorage.
C22_TokenIsNeverStored ==
  mode = "app" => localStorage.ado_pat = NullItem

\* The verdicts of the list that carry a matched attempt.
Matched == { i \in 1..Len(deployments) : deployments[i].buildId # 0 }

\* Every attempt of the owner in the history neither succeeded nor runs.
AllFailed(history, owner) ==
  /\ \E i \in 1..Len(history) : history[i].owner = owner
  /\ \A i \in 1..Len(history) :
       history[i].owner = owner =>
         ~IsSucceeded(history[i]) /\ ~IsInProgress(history[i])

\* C23: every candidate of the scan is a succeeded or an in-progress
\* representative; a verdict with a matched attempt is deployed when the
\* representative succeeded and inProgress when it runs, never unknown; and
\* no verdict has as matched attempt an owner whose attempts all failed.
C23_CandidatesSucceededOrRunning ==
  /\ \A k \in 1..Len(validDeployments) :
       IsSucceeded(validDeployments[k]) \/ IsInProgress(validDeployments[k])
  /\ \A i \in Matched : deployments[i].status \in {"deployed", "inProgress"}
  /\ (done.env # 0 /\ done.positives # {}) =>
       \E k \in done.positives :
         LET dep == done.candidates[k]
             status == deployments[Len(deployments)].status
         IN /\ deployments[Len(deployments)].buildId = dep.owner
            /\ \/ status = "deployed" /\ IsSucceeded(dep)
               \/ status = "inProgress" /\ IsInProgress(dep)
  /\ mode = "twice" =>
       \A i \in Matched : ~AllFailed(arg.history, deployments[i].buildId)

\* A call against an upstream with an owner whose attempts all failed and
\* whose build would pass the check returned a verdict with a match.
C23_Witness ==
  /\ mode = "twice"
  /\ pc = "done"
  /\ Matched # {}
  /\ \E o \in 1..MaxUpstreamOwners :
       /\ AllFailed(arg.history, o)
       /\ arg.answers[o].build = GoodBuild(AfterMerge)

\* The owners of the history with a succeeded record and a build whose
\* source version has the merge commit as an ancestor, in record order.
IncludingOwners ==
  LET buildMap == BuildMap(arg.history)
  IN SelectSeq([i \in 1..Len(buildMap) |-> buildMap[i].owner],
               LAMBDA o : /\ arg.facts[o].found
                          /\ arg.facts[o].sourceVersion
                          /\ arg.facts[o].ancestor)

\* C24: checkEnvironmentStatus answers included exactly when a succeeded
\* record of the environment has an owner whose build has a source version
\* the merge commit is an ancestor of, and the build it reports is the
\* first such owner in record order.
C24_IncludedIffAncestorBuild ==
  (mode = "check" /\ pc = "returned" /\ arg.recordsOk) =>
    /\ ret.status = "included" <=> IncludingOwners # <<>>
    /\ ret.status = "included" => ret.buildId = Head(IncludingOwners)

\* The owner of a record of checkEnvironmentStatus passed its inclusion
\* check: it was fetched for a succeeded record and its build was found
\* with a source version that isPRIncludedInBuild accepted.
PassedInclusion(owner) ==
  /\ owner # 0
  /\ \E k \in 1..Len(validDeployments) : validDeployments[k].owner = owner
  /\ arg.facts[owner].found
  /\ arg.facts[owner].sourceVersion
  /\ IsPRIncludedInBuild(PrMergeCommit, arg.facts[owner].bases) = "true"

\* C25: an environment is reported in progress only for an attempt that
\* passed the inclusion check and is unfinished without result: in
\* getPLGDeployments the matched representative, in checkEnvironmentStatus
\* a record of the history.
C25_InProgressOnlyWhenIncluded ==
  /\ (mode # "check" /\ done.env # 0
        /\ deployments[done.env].status = "inProgress") =>
       \E k \in done.positives :
         /\ IsInProgress(done.candidates[k])
         /\ deployments[done.env].buildId = done.candidates[k].owner
  /\ (mode = "check" /\ pc = "returned" /\ ret.status = "in-progress") =>
       \E i \in 1..Len(records) :
         /\ IsInProgress(records[i])
         /\ PassedInclusion(records[i].owner)

\* The part of C25 about getPLGDeployments.
C25_ScanInProgressOnlyWhenIncluded ==
  (mode # "check" /\ done.env # 0
     /\ deployments[done.env].status = "inProgress") =>
    \E k \in done.positives :
      /\ IsInProgress(done.candidates[k])
      /\ deployments[done.env].buildId = done.candidates[k].owner

\* C26: in getDeploymentsForBuilds and getDeploymentsByBuildChanges an
\* environment is deployed only if the result of the matching record is
\* succeeded.
C26_DeployedOnlyIfSucceeded ==
  mode = "track" =>
    \A i \in 1..Len(deployments) :
      deployments[i].status = "deployed" => IsSucceeded(deployments[i].matching)

\* C27: for a merged change a verdict of getPLGDeployments carries a build
\* id exactly when its status is deployed or inProgress, and the verdict of
\* a scan that ended without a match is waitingForTrain without build id,
\* timestamp or link, whatever the deployment type of the environment.
C27_BuildIdIffMatched ==
  (mode = "loop" /\ mergeCommitId # NoCommit /\ closedDate # NoDate) =>
    /\ \A i \in 1..Len(deployments) :
         deployments[i].buildId # 0 <=>
           deployments[i].status \in {"deployed", "inProgress"}
    /\ (done.env # 0 /\ ~done.threw /\ done.positives = {}) =>
         deployments[done.env] = PlainVerdict(envs[done.env], "waitingForTrain")

\* A continuous and a train-based environment both ended without a match,
\* the second after a candidate was checked.
C27_Witness ==
  /\ mode = "loop"
  /\ pc = "done"
  /\ Len(deployments) = 2
  /\ envs[1].deploymentType = "continuous"
  /\ envs[2].deploymentType = "train-based"
  /\ deployments[1].status = "waitingForTrain"
  /\ deployments[2].status = "waitingForTrain"
  /\ done.env = 2
  /\ done.checked >= 1

\* C28: without a merge commit id or without a closed date getPLGDeployments
\* never has a request pending, and it returns notDeployed for every
\* tracked environment.
C28_UnmergedMakesNoCall ==
  (mode = "loop" /\ (mergeCommitId = NoCommit \/ closedDate = NoDate)) =>
    /\ pc \in {"start", "done"}
    /\ pc = "done" =>
         /\ Len(deployments) = Len(envs)
         /\ \A i \in 1..Len(envs) :
              deployments[i] = PlainVerdict(envs[i], "notDeployed")

\* The call returned for a change with a closed date and no merge commit.
C28_Witness ==
  /\ mode = "loop"
  /\ mergeCommitId = NoCommit
  /\ closedDate # NoDate
  /\ pc = "done"
  /\ Len(deployments) = NumEnvs

\* C29: the expected dates of calculateExpectedDates are a chain: the merge
\* is before the date of EDOG, and no ring is expected before an earlier
\* ring.
C29_ExpectedDatesAreAChain ==
  ret.fn = "calculateExpectedDates" =>
    LET e == ret.value.result
    IN /\ arg.mergeDate < e.edog
       /\ e.edog <= e.daily
       /\ e.daily <= e.dxt
       /\ e.dxt <= e.msit
       /\ e.msit <= e.canary1
       /\ e.canary1 <= e.canary2
       /\ e.canary2 <= e.prod

\* A merge on the fork day before the fork hour: EDOG is expected one day
\* after the merge.
C29_Witness ==
  /\ ret.fn = "calculateExpectedDates"
  /\ GetDay(Wall(arg.mergeDate, arg.tzOffset)) = Thursday
  /\ GetHours(Wall(arg.mergeDate, arg.tzOffset)) < ForkHour
  /\ ret.value.result.edog = arg.mergeDate + HoursPerDay

\* The lookups issued so far in the scan of an environment for an owner, of
\* the given kinds.
LookupsOf(env, owner, kinds) ==
  Cardinality({ i \in 1..Len(requested) :
                  /\ requested[i].env = env
                  /\ requested[i].owner = owner
                  /\ requested[i].kind \in kinds })

\* In the scan of an environment every group is visited at most once, with
\* at most three metadata lookups and one merge-base query, and the history
\* of the environment is requested at most once.
LookupsAreBounded ==
  /\ \A e \in 1..Len(envs) :
       /\ \A o \in 1..MaxOwner :
            /\ LookupsOf(e, o, {"build"}) <= 1
            /\ LookupsOf(e, o, {"build", "release", "artifactBuild"}) <= 3
            /\ LookupsOf(e, o, {"mergeBase"}) <= 1
       /\ LookupsOf(e, 0, {"records"}) <= 1
  /\ Len(requested) <= Len(envs) * (1 + 4 * TopRecords)

\* C30: when no request stays pending for ever getPLGDeployments returns,
\* and the lookups it issues are bounded: at most one visit, three metadata
\* lookups and one merge-base query for each group, one history request for
\* each environment.
C30_ReturnsAfterBoundedLookups ==
  /\ ([]~hung) => <>(pc = "done")
  /\ [](Tracing => LookupsAreBounded)

\* The call returned after the three metadata lookups of a group.
C30_Witness ==
  /\ mode = "trace"
  /\ pc = "done"
  /\ ~hung
  /\ \E i \in 1..Len(requested) : requested[i].kind = "artifactBuild"

====
